---------------------------- MODULE Spec2Model ----------------------------
(***************************************************************************)
(* Model of Grout (Nexlified/placeholder-images): the per-client token     *)
(* bucket registry of internal/middleware/ratelimit.go and the fingerprint *)
(* keyed LRU cache path of internal/handlers (serveImage, handleAvatar,    *)
(* handlePlaceholder) with the renderer of internal/render.                *)
(*                                                                         *)
(* Conventions.  Strings the code inspects character by character are      *)
(* sequences of one-character strings.  Time is in whole seconds.  Token   *)
(* counts are kept in sixtieths of a token (tokens60), so that the refill  *)
(* rate rpm/60 tokens per second is the integer rpm per second.  Lengths    *)
(* the renderer computes in floating point are kept in units of 1/Scale.   *)
(***************************************************************************)
EXTENDS Integers, Sequences, FiniteSets, TLC

(***************************************************************************)
(* Bounds of the model.                                                    *)
(***************************************************************************)
MaxTicks == 2
Quantum == 40
MaxCacheSize == 2
MaxSweepTicks == 1

(***************************************************************************)
(* Program constants.                                                      *)
(***************************************************************************)
CleanupInterval == 600
IdleThreshold == 600
StatusOK == 200
StatusNotModified == 304
StatusTooManyRequests == 429
StatusInternalServerError == 500

Procs == {1, 2}
\* the goroutine of a client that sends its requests one after the other
Main == 1
NoPtr == 0
Never == 0 - 1

Min(a, b) == IF a < b THEN a ELSE b
Max(a, b) == IF a > b THEN a ELSE b

(***************************************************************************)
(* String helpers over sequences of characters.                            *)
(***************************************************************************)
IsSpace(c) == c \in {" ", "\t", "\n", "\r"}

RECURSIVE TrimLeft(_)
TrimLeft(s) == IF s # <<>> /\ IsSpace(Head(s)) THEN TrimLeft(Tail(s)) ELSE s

RECURSIVE TrimRight(_)
TrimRight(s) ==
  IF s # <<>> /\ IsSpace(s[Len(s)]) THEN TrimRight(SubSeq(s, 1, Len(s) - 1)) ELSE s

\* strings.TrimSpace
TrimSpace(s) == TrimRight(TrimLeft(s))

\* index of the first occurrence of character c in s, 0 when absent
RECURSIVE IndexFrom(_, _, _)
IndexFrom(s, c, i) ==
  IF i > Len(s) THEN 0 ELSE IF s[i] = c THEN i ELSE IndexFrom(s, c, i + 1)

IndexOf(s, c) == IndexFrom(s, c, 1)

\* index of the last occurrence of character c in s, 0 when absent
RECURSIVE LastIndexFrom(_, _, _)
LastIndexFrom(s, c, i) ==
  IF i < 1 THEN 0 ELSE IF s[i] = c THEN i ELSE LastIndexFrom(s, c, i - 1)

LastIndexOf(s, c) == LastIndexFrom(s, c, Len(s))

\* strings.Split(s, sep) for a one-character separator
RECURSIVE Split(_, _)
Split(s, c) ==
  LET i == IndexOf(s, c)
  IN  IF i = 0 THEN <<s>>
      ELSE <<SubSeq(s, 1, i - 1)>> \o Split(SubSeq(s, i + 1, Len(s)), c)

(***************************************************************************)
(* Requests seen by the rate limiting middleware.                          *)
(***************************************************************************)
RLRequests ==
  { [xff |-> <<>>, realIP |-> <<>>, remoteAddr |-> <<"1", ":", "9">>],
    [xff |-> <<"2", ",", " ", "7">>, realIP |-> <<>>, remoteAddr |-> <<"1", ":", "9">>] }

NoRequest == [xff |-> <<>>, realIP |-> <<>>, remoteAddr |-> <<>>]

\* Requests for the resolution of the client identity: header values as
\* net/http delivers them (no surrounding white space), forwarding chains
\* of one or more values, with and without X-Real-IP, peers with and
\* without a port.
IdRequests ==
  { [xff |-> x, realIP |-> y, remoteAddr |-> a] :
      x \in { <<>>, <<"2", ",", "7">>, <<"2", " ", ",", " ", "8">> },
      y \in { <<>>, <<"3">> },
      a \in { <<"1", ":", "9">>, <<"4">> } }

\* net.SplitHostPort: the host part before the last colon, or an error
SplitHostPort(addr) ==
  LET i == LastIndexOf(addr, ":")
  IN  IF i = 0 THEN [err |-> TRUE, host |-> <<>>]
      ELSE [err |-> FALSE, host |-> SubSeq(addr, 1, i - 1)]

\* a variant of getIP that prefers X-Real-IP to X-Forwarded-For
getIPRealFirst(r) ==
  LET forwarded == r.xff
      parts == Split(forwarded, ",")
      realIP == TrimSpace(r.realIP)
      hp == SplitHostPort(r.remoteAddr)
  IN  IF realIP # <<>> THEN realIP
      ELSE IF forwarded # <<>> /\ Len(parts) > 0 THEN TrimSpace(parts[1])
      ELSE IF hp.err THEN r.remoteAddr
      ELSE hp.host

getIP(r) ==
  LET forwarded == r.xff
      parts == Split(forwarded, ",")
      realIP == TrimSpace(r.realIP)
      hp == SplitHostPort(r.remoteAddr)
  IN  IF forwarded # <<>> /\ Len(parts) > 0 THEN TrimSpace(parts[1])
      ELSE IF realIP # <<>> THEN realIP
      ELSE IF hp.err THEN r.remoteAddr
      ELSE hp.host

IPs == { getIP(r) : r \in RLRequests \cup IdRequests }


(***************************************************************************)
(* State.                                                                  *)
(*   now        wall clock (time.Now), seconds                             *)
(*   ticks      the number of times the clock has been advanced            *)
(*   rpm, burst RateLimiter.rpm, RateLimiter.burst                         *)
(*   limiters   RateLimiter.limiters: identity -> limiterEntry, an entry   *)
(*              being a pointer to a rate.Limiter and lastAccess           *)
(*   buckets    the rate.Limiter objects on the heap, by pointer           *)
(*   tickAt     the time of the next tick of the cleanup ticker            *)
(*   resp       per request goroutine: the response it wrote last          *)
(*   invoked    whether the wrapped handler ran for that request           *)
(*   obs        observation of each bucket since its creation              *)
(*   sweepLog   identities removed and kept by the most recent sweep       *)
(***************************************************************************)
VARIABLES now, ticks, rpm, burst, limiters, buckets, tickAt, obs, sweepLog,
          resp, invoked

(***************************************************************************)
(*   cacheSize  cfg.CacheSize, the capacity given to lru.New               *)
(*   cache      Service.cache: the entries, most recently used first       *)
(*   pc, job    per request goroutine: where it is in serveImage and, past *)
(*              a cache miss, the key, format and generator it holds       *)
(*   lastAct    what the step just taken did: the goroutine, the request,  *)
(*              the calls made on the cache and the renderer, and the      *)
(*              response written, if any                                   *)
(*   recency    the keys in the order of their last access (Get hit, Add)  *)
(***************************************************************************)
VARIABLES cacheSize, cache, pc, job, lastAct, recency

cacheVars == <<cacheSize, cache, pc, job, lastAct, recency>>

(***************************************************************************)
(*   mu         RateLimiter.mu: 0 when free, else the goroutine holding it *)
(*   apc        per request goroutine: where it is in Middleware           *)
(*   ipOf, held per request goroutine: its locals ip and limiter           *)
(*   spc        where the cleanup goroutine is in cleanupStaleEntries      *)
(*   todo       the identities the range loop at line 74 has yet to visit  *)
(*   sweepNow   the local now of cleanupStaleEntries (line 72)             *)
(***************************************************************************)
VARIABLES mu, apc, ipOf, held, spc, todo, sweepNow

lockVars == <<mu, apc, ipOf, held, spc, todo, sweepNow>>

(***************************************************************************)
(*   arg, res   the argument and the result of the function applied last,  *)
(*              in the specifications that exercise one function           *)
(***************************************************************************)
VARIABLES arg, res

pureVars == <<arg, res>>

rlVars == <<now, ticks, rpm, burst, limiters, buckets, tickAt, obs, sweepLog>>
procVars == <<resp, invoked>>

NoResponse == [status |-> 0, headers |-> <<>>, body |-> <<>>]

\* The limiters the registry refers to; the others are garbage.
Live(lims) == { lims[ip].limiter : ip \in DOMAIN lims }

Ptrs == 1..Cardinality(IPs)

\* Variant: every identity is handed the limiter that is already in use.
NewPtrShared(lims) ==
  IF Live(lims) = {} THEN 1 ELSE CHOOSE h \in Live(lims) : \A g \in Live(lims) : h <= g

\* new(rate.Limiter): the least pointer not in use
NewPtr(lims) == CHOOSE h \in Ptrs \ Live(lims) : \A g \in Ptrs \ Live(lims) : h <= g

Collect(f, lims) == [h \in Live(lims) |-> f[h]]

(***************************************************************************)
(* golang.org/x/time/rate, as used at ratelimit.go:53 and :116.            *)
(***************************************************************************)
\* rate.NewLimiter(rps, burst): a full bucket
NewLimiter(b) == [tokens60 |-> b * 60, last |-> 0]

\* Variant: the refill is not capped at burst.
advanceUncapped(lim, t) ==
  LET last == IF t < lim.last THEN t ELSE lim.last
      elapsed == t - last
  IN  lim.tokens60 + rpm * elapsed

\* Limiter.advance: the tokens available at time t, capped at burst
advance(lim, t) ==
  LET last == IF t < lim.last THEN t ELSE lim.last
      elapsed == t - last
      tokens == lim.tokens60 + rpm * elapsed
  IN  IF burst * 60 < tokens THEN burst * 60 ELSE tokens

\* Variant: the call is granted while the bucket is at most one token in debt.
AllowOffByOne(lim, t) ==
  LET tokens == advance(lim, t) - 60
      ok == 1 <= burst /\ tokens >= 0 - 60
  IN  [ok |-> ok,
       lim |-> IF ok THEN [tokens60 |-> tokens, last |-> t] ELSE lim]

\* Limiter.Allow = reserveN(now, 1, 0): consumes one token iff one is there
Allow(lim, t) ==
  LET tokens == advance(lim, t) - 60
      ok == 1 <= burst /\ tokens >= 0
  IN  [ok |-> ok,
       lim |-> IF ok THEN [tokens60 |-> tokens, last |-> t] ELSE lim]

(***************************************************************************)
(* RateLimiter                                                             *)
(***************************************************************************)
\* Variant: lastAccess is set when the entry is created and not afterwards.
getLimiterRefreshOnCreate(ip) ==
  IF ip \notin DOMAIN limiters
  THEN LET h == NewPtr(limiters)
       IN  [limiters |-> [i \in DOMAIN limiters \cup {ip} |->
                            IF i = ip THEN [limiter |-> h, lastAccess |-> now]
                            ELSE limiters[i]],
            buckets |-> [g \in DOMAIN buckets \cup {h} |->
                            IF g = h THEN NewLimiter(burst) ELSE buckets[g]],
            limiter |-> h,
            created |-> TRUE]
  ELSE [limiters |-> limiters,
        buckets |-> buckets,
        limiter |-> limiters[ip].limiter,
        created |-> FALSE]

\* getLimiter(ip): the registry and the heap after the call, and the
\* limiter it returns; the entry is created when absent, else its
\* lastAccess is refreshed
getLimiter(ip) ==
  IF ip \notin DOMAIN limiters
  THEN LET h == NewPtr(limiters)
       IN  [limiters |-> [i \in DOMAIN limiters \cup {ip} |->
                            IF i = ip THEN [limiter |-> h, lastAccess |-> now]
                            ELSE limiters[i]],
            buckets |-> [g \in DOMAIN buckets \cup {h} |->
                            IF g = h THEN NewLimiter(burst) ELSE buckets[g]],
            limiter |-> h,
            created |-> TRUE]
  ELSE [limiters |-> [limiters EXCEPT ![ip].lastAccess = now],
        buckets |-> buckets,
        limiter |-> limiters[ip].limiter,
        created |-> FALSE]

TooManyRequests ==
  [status |-> StatusTooManyRequests,
   headers |-> [n \in {"Content-Type"} |-> "text/plain; charset=utf-8"],
   body |-> "Too Many Requests"]

\* the handler the tests wrap: writes 200 "OK"
StubResponse == [status |-> StatusOK, headers |-> <<>>, body |-> "OK"]

\* What is observed of a bucket: whether no time has passed since it was
\* created and, while so, the calls and admissions made on it (counted up to
\* CallCap); whether the last call was rejected, and whether the last call
\* was an admission that followed a rejection at an empty bucket.
NewObs == [fresh |-> TRUE, calls |-> 0, admits |-> 0,
           rejected |-> FALSE, recovered |-> FALSE]

CallCap == burst + 1

Observe(o, was, a) ==
  LET c == IF o.fresh THEN Min(o.calls + 1, CallCap) ELSE o.calls
      m == IF o.fresh /\ a.ok THEN Min(o.admits + 1, CallCap) ELSE o.admits
  IN  IF a.ok
      THEN [o EXCEPT !.calls = c, !.admits = m, !.rejected = FALSE,
                     !.recovered = o.rejected /\ was.tokens60 < 60]
      ELSE [o EXCEPT !.calls = c, !.admits = m, !.rejected = TRUE,
                     !.recovered = FALSE]

\* The handler returned by Middleware(next), serving request r
Middleware(p, r) ==
  LET ip == getIP(r)
      g == getLimiter(ip)
      h == g.limiter
      a == Allow(g.buckets[h], now)
      o == IF g.created THEN NewObs ELSE obs[h]
  IN  /\ limiters' = g.limiters
      /\ buckets' = [g.buckets EXCEPT ![h] = a.lim]
      /\ obs' = [k \in DOMAIN g.buckets |->
                   IF k = h THEN Observe(o, g.buckets[h], a) ELSE obs[k]]
      /\ resp' = [resp EXCEPT ![p] = IF a.ok THEN StubResponse ELSE TooManyRequests]
      /\ invoked' = [invoked EXCEPT ![p] = a.ok]
      /\ UNCHANGED <<now, ticks, rpm, burst, tickAt, sweepLog>>

\* Variant: an entry idle for exactly the threshold is removed as well.
cleanupStaleEntriesInclusive ==
  LET keep == { ip \in DOMAIN limiters :
                  ~ (now - limiters[ip].lastAccess >= IdleThreshold) }
      lims == [ip \in keep |-> limiters[ip]]
  IN  /\ now >= tickAt
      /\ tickAt' = tickAt + CleanupInterval
      /\ limiters' = lims
      /\ buckets' = Collect(buckets, lims)
      /\ obs' = Collect(obs, lims)
      /\ sweepLog' = [removed |-> DOMAIN limiters \ keep, kept |-> keep]
      /\ UNCHANGED <<now, ticks, rpm, burst, resp, invoked>>

\* one iteration of the loop of cleanupStaleEntries, under rl.mu
cleanupStaleEntries ==
  LET keep == { ip \in DOMAIN limiters :
                  ~ (now - limiters[ip].lastAccess > IdleThreshold) }
      lims == [ip \in keep |-> limiters[ip]]
  IN  /\ now >= tickAt
      /\ tickAt' = tickAt + CleanupInterval
      /\ limiters' = lims
      /\ buckets' = Collect(buckets, lims)
      /\ obs' = Collect(obs, lims)
      /\ sweepLog' = [removed |-> DOMAIN limiters \ keep, kept |-> keep]
      /\ UNCHANGED <<now, ticks, rpm, burst, resp, invoked>>

\* time passes
Durations == {Quantum, IdleThreshold}

Tick(d) ==
  /\ ticks < MaxTicks
  /\ ticks' = ticks + 1
  /\ now' = now + d
  /\ obs' = [h \in DOMAIN obs |->
               [obs[h] EXCEPT !.fresh = FALSE, !.calls = 0, !.admits = 0]]
  /\ UNCHANGED <<rpm, burst, limiters, buckets, tickAt, sweepLog, resp, invoked>>

RPMs == {1, 2, 60}
Bursts == {1, 2}

\* NewRateLimiter(rpm, burst), before the first request
NewRateLimiter ==
  /\ now = 0
  /\ ticks = 0
  /\ rpm \in RPMs
  /\ burst \in Bursts
  /\ limiters = <<>>
  /\ buckets = <<>>
  /\ tickAt = CleanupInterval
  /\ obs = <<>>
  /\ sweepLog = [removed |-> {}, kept |-> {}]

InitProcs ==
  /\ resp = [p \in Procs |-> NoResponse]
  /\ invoked = [p \in Procs |-> FALSE]

vars == <<now, ticks, rpm, burst, limiters, buckets, tickAt, obs, sweepLog, resp, invoked,
          cacheSize, cache, pc, job, lastAct, recency,
          mu, apc, ipOf, held, spc, todo, sweepNow, arg, res>>

\* no function applied yet
NoCall ==
  /\ arg = <<>>
  /\ res = <<>>

\* no goroutine inside the registry's critical section
LockIdle ==
  /\ mu = 0
  /\ apc = [p \in Procs |-> "idle"]
  /\ ipOf = [p \in Procs |-> <<>>]
  /\ held = [p \in Procs |-> NoPtr]
  /\ spc = "ticker"
  /\ todo = {}
  /\ sweepNow = 0

(***************************************************************************)
(* SpecRL: the rate limiter wrapped around a stub handler, as in           *)
(* ratelimit_test.go, serving one client connection.                       *)
(***************************************************************************)
NoJob == [key |-> <<>>]
NoAct == [p |-> 0, kind |-> "none"]

\* the image service not started
CacheOff ==
  /\ cacheSize = 0
  /\ cache = <<>>
  /\ pc = [p \in Procs |-> "idle"]
  /\ job = [p \in Procs |-> NoJob]
  /\ lastAct = NoAct
  /\ recency = <<>>

InitRL == NewRateLimiter /\ InitProcs /\ CacheOff /\ LockIdle /\ NoCall

NextRL ==
  \/ \E r \in RLRequests : Middleware(Main, r) /\ UNCHANGED <<cacheVars, lockVars, pureVars>>
  \/ cleanupStaleEntries /\ UNCHANGED <<cacheVars, lockVars, pureVars>>
  \/ \E d \in Durations : Tick(d) /\ UNCHANGED <<cacheVars, lockVars, pureVars>>

SpecRL == InitRL /\ [][NextRL]_vars


(***************************************************************************)
(* Properties of the rate limiter.                                         *)
(***************************************************************************)
BucketOf(ip) == limiters[ip].limiter

C1_Counts ==
  \A h \in DOMAIN obs :
    obs[h].fresh => obs[h].admits = Min(obs[h].calls, burst)

C1_Answer ==
  \A r \in RLRequests :
    Middleware(Main, r) =>
      LET h == limiters'[getIP(r)].limiter
      IN  IF obs'[h].rejected
          THEN resp'[Main].status = StatusTooManyRequests /\ ~ invoked'[Main]
          ELSE resp'[Main].status = StatusOK /\ invoked'[Main]

\* C1: on a bucket just created with burst B >= 1, of the calls made while
\* no time elapses exactly the first B are admitted and every later one is
\* rejected; a rejected call is answered 429 and the wrapped handler is not
\* invoked for it.
C1_BurstThenReject == [] C1_Counts /\ [][C1_Answer]_vars

C1_Witness ==
  \E h \in DOMAIN obs :
    /\ obs[h].fresh /\ obs[h].calls = burst + 1 /\ obs[h].admits = burst
    /\ resp[Main].status = StatusTooManyRequests /\ ~ invoked[Main]

C2_Capped == \A h \in DOMAIN buckets : buckets[h].tokens60 <= burst * 60

C2_Refill ==
  \A r \in RLRequests :
    (Middleware(Main, r) /\ getIP(r) \in DOMAIN limiters) =>
      LET h == BucketOf(getIP(r))
          b == buckets[h]
          admitted == resp'[Main].status = StatusOK
          refilled == rpm * (now - b.last)
      IN  /\ (b.tokens60 < 60 /\ obs[h].rejected /\ refilled >= 60 - b.tokens60)
               => admitted
          /\ (b.tokens60 < 60 /\ refilled < 60 - b.tokens60) => ~ admitted
          /\ admitted => buckets'[h].tokens60 <= (burst - 1) * 60

\* C2: after a bucket was left with less than one token and a call was
\* rejected, a call made once rpm/60 tokens per second have refilled one
\* whole token (60/rpm seconds after an empty bucket) is admitted, and none
\* is admitted sooner; the tokens never exceed burst.
C2_RefillAfterReject == [] C2_Capped /\ [][C2_Refill]_vars

C2_Witness ==
  \E h \in DOMAIN obs : obs[h].recovered /\ ticks > 0 /\ resp[Main].status = StatusOK

C3_Frame ==
  \A r \in RLRequests :
    Middleware(Main, r) =>
      \A b \in DOMAIN limiters \ {getIP(r)} :
        /\ b \in DOMAIN limiters'
        /\ limiters'[b] = limiters[b]
        /\ buckets'[BucketOf(b)] = buckets[BucketOf(b)]

\* C3: an admit call for identity A changes neither the bucket nor the
\* lastAccess of any other identity B.
C3_OtherIdentityUntouched == [][C3_Frame]_vars

C3_Witness ==
  \E a, b \in DOMAIN limiters :
    /\ a # b
    /\ obs[BucketOf(a)].rejected
    /\ obs[BucketOf(b)].fresh /\ obs[BucketOf(b)].admits >= 1
    /\ ~ obs[BucketOf(b)].rejected
    /\ resp[Main].status = StatusOK

C4_Sweep ==
  (tickAt' # tickAt) =>
    /\ DOMAIN limiters' =
         { ip \in DOMAIN limiters : now - limiters[ip].lastAccess <= IdleThreshold }
    /\ \A ip \in DOMAIN limiters' :
         /\ limiters'[ip] = limiters[ip]
         /\ buckets'[BucketOf(ip)] = buckets[BucketOf(ip)]

C4_Recreate ==
  \A r \in RLRequests :
    (Middleware(Main, r) /\ getIP(r) \notin DOMAIN limiters) =>
      LET e == limiters'[getIP(r)]
      IN  /\ e.lastAccess = now
          /\ buckets'[e.limiter].tokens60 = burst * 60 - 60
          /\ resp'[Main].status = StatusOK

\* C4: a sweep removes exactly the entries whose lastAccess lies more than
\* the idle threshold in the past and keeps every other entry unchanged;
\* the next admit of a removed identity creates a fresh entry with a full
\* bucket, from which that admit takes its token.
C4_SweepRemovesIdle == [][C4_Sweep /\ C4_Recreate]_vars

C4_Witness ==
  /\ sweepLog.removed # {} /\ sweepLog.kept # {}
  /\ \E ip \in sweepLog.removed :
       ip \in DOMAIN limiters /\ obs[BucketOf(ip)].fresh /\ obs[BucketOf(ip)].admits = 1


(***************************************************************************)
(* Numbers and characters.                                                 *)
(***************************************************************************)
Digits == <<"0", "1", "2", "3", "4", "5", "6", "7", "8", "9">>
LowerLetters == <<"a", "b", "c", "d", "e", "f", "g", "h", "i", "j", "k", "l", "m", "n", "o", "p", "q", "r", "s", "t", "u", "v", "w", "x", "y", "z">>
UpperLetters == <<"A", "B", "C", "D", "E", "F", "G", "H", "I", "J", "K", "L", "M", "N", "O", "P", "Q", "R", "S", "T", "U", "V", "W", "X", "Y", "Z">>

IsDigit(c) == \E d \in 1..10 : Digits[d] = c
DigitVal(c) == CHOOSE d \in 0..9 : Digits[d + 1] = c

RECURSIVE DigitsVal(_)
DigitsVal(s) ==
  IF s = <<>> THEN 0
  ELSE 10 * DigitsVal(SubSeq(s, 1, Len(s) - 1)) + DigitVal(s[Len(s)])

AllDigits(s) == s # <<>> /\ \A i \in 1..Len(s) : IsDigit(s[i])

\* the longest digit string whose value the model can hold
MaxDigits == 9

\* strconv.Atoi: an optional sign and decimal digits; anything else, or a
\* value out of range, is an error
Atoi(s) ==
  LET signed == s # <<>> /\ s[1] \in {"+", "-"}
      body == IF signed THEN Tail(s) ELSE s
  IN  IF AllDigits(body) /\ Len(body) <= MaxDigits
      THEN [err |-> FALSE,
            val |-> IF signed /\ s[1] = "-" THEN 0 - DigitsVal(body) ELSE DigitsVal(body)]
      ELSE [err |-> TRUE, val |-> 0]

\* fmt.Sprintf("%d", n) for n >= 0
RECURSIVE Itoa(_)
Itoa(n) ==
  IF n < 10 THEN <<Digits[n + 1]>> ELSE Itoa(n \div 10) \o <<Digits[(n % 10) + 1]>>

\* a parser that lets zero through
ParseIntOrDefaultAllowZero(s, def) ==
  IF s = <<>> THEN def
  ELSE LET a == Atoi(s)
       IN  IF a.err \/ a.val < 0 THEN def ELSE a.val

\* utils.ParseIntOrDefault
ParseIntOrDefault(s, def) ==
  IF s = <<>> THEN def
  ELSE LET a == Atoi(s)
       IN  IF a.err \/ a.val <= 0 THEN def ELSE a.val

\* unicode.ToUpper on the letters of the model's alphabet
\* code points outside ASCII are written by their number; unicode.ToUpper
\* maps U+00E9 to U+00C9 and leaves U+00DF, which has no upper case rune
SmallEAcute == "U+00E9"
CapitalEAcute == "U+00C9"
SharpS == "U+00DF"

ToUpperChar(c) ==
  IF \E i \in 1..Len(LowerLetters) : LowerLetters[i] = c
  THEN UpperLetters[CHOOSE i \in 1..Len(LowerLetters) : LowerLetters[i] = c]
  ELSE IF c = SmallEAcute THEN CapitalEAcute
  ELSE c

ToUpper(s) == [i \in 1..Len(s) |-> ToUpperChar(s[i])]

\* len(s) of a Go string: the number of bytes of its UTF-8 encoding
Utf8Len(c) == IF c \in {SmallEAcute, CapitalEAcute, SharpS} THEN 2 ELSE 1

RECURSIVE ByteLen(_)
ByteLen(s) == IF s = <<>> THEN 0 ELSE Utf8Len(Head(s)) + ByteLen(Tail(s))

HasPrefix(s, pre) == Len(s) >= Len(pre) /\ SubSeq(s, 1, Len(pre)) = pre
HasSuffix(s, suf) ==
  Len(s) >= Len(suf) /\ SubSeq(s, Len(s) - Len(suf) + 1, Len(s)) = suf
TrimSuffix(s, suf) == IF HasSuffix(s, suf) THEN SubSeq(s, 1, Len(s) - Len(suf)) ELSE s
TrimPrefix(s, pre) == IF HasPrefix(s, pre) THEN SubSeq(s, Len(pre) + 1, Len(s)) ELSE s

\* strings.Fields: the maximal runs of non-space characters
RECURSIVE FieldsFrom(_, _)
FieldsFrom(s, cur) ==
  IF s = <<>> THEN (IF cur = <<>> THEN <<>> ELSE <<cur>>)
  ELSE IF IsSpace(Head(s))
       THEN (IF cur = <<>> THEN <<>> ELSE <<cur>>) \o FieldsFrom(Tail(s), <<>>)
       ELSE FieldsFrom(Tail(s), Append(cur, Head(s)))

Fields(s) == FieldsFrom(s, <<>>)

\* strings.EqualFold
EqualFold(a, b) == ToUpper(a) = ToUpper(b)

(***************************************************************************)
(* internal/config                                                         *)
(***************************************************************************)
DefaultSize == 128
DefaultBgColor == <<"c", "c", "c", "c", "c", "c">>
DefaultAvatarBg == <<"f", "0", "e", "9", "e", "9">>
MinWidthForQuoteJoke == 300
MinFontSize == 16
MaxFontSize == 48
MinTextLengthForWrapping == 2
MinCharsPerLine == 10

(***************************************************************************)
(* Floating point lengths, in units of 1/Scale.                            *)
(***************************************************************************)
Scale == 2000

\* fmt's %.0f: to the nearest integer, ties to even
Round0(x) ==
  LET q == x \div Scale
      rem == x - q * Scale
  IN  IF 2 * rem > Scale THEN q + 1
      ELSE IF 2 * rem < Scale THEN q
      ELSE IF q % 2 = 0 THEN q ELSE q + 1

(***************************************************************************)
(* internal/render: colours                                                *)
(***************************************************************************)
HexDigits == <<"0", "1", "2", "3", "4", "5", "6", "7", "8", "9", "a", "b", "c", "d", "e", "f", "A", "B", "C", "D", "E", "F">>

IsHex(c) == \E i \in 1..Len(HexDigits) : HexDigits[i] = c
HexVal(c) ==
  LET i == CHOOSE j \in 1..Len(HexDigits) : HexDigits[j] = c
  IN  IF i <= 16 THEN i - 1 ELSE i - 7

Contains(s, c) == IndexOf(s, c) # 0

parseGradientColors(bgHex) ==
  IF ~ Contains(bgHex, ",") THEN <<<<>>, <<>>>>
  ELSE LET colors == Split(bgHex, ",")
       IN  IF Len(colors) = 2 THEN <<TrimSpace(colors[1]), TrimSpace(colors[2])>>
           ELSE IF Len(colors) > 2 THEN <<TrimSpace(colors[1]), <<>>>>
           ELSE <<<<>>, <<>>>>

Gray == [R |-> 200, G |-> 200, B |-> 200, A |-> 255]

\* hexDecode: three two-digit hexadecimal bytes
hexDecode(s) ==
  IF \A i \in 1..6 : IsHex(s[i])
  THEN [err |-> FALSE,
        b |-> [i \in 1..3 |-> 16 * HexVal(s[2 * i - 1]) + HexVal(s[2 * i])]]
  ELSE [err |-> TRUE, b |-> <<>>]

ParseHexColor(hex) ==
  LET s0 == TrimPrefix(hex, <<"#">>)
      s == IF Len(s0) = 3 THEN <<s0[1], s0[1], s0[2], s0[2], s0[3], s0[3]>> ELSE s0
  IN  IF Len(s) # 6 THEN Gray
      ELSE LET rgb == hexDecode(s)
           IN  IF rgb.err THEN Gray
               ELSE [R |-> rgb.b[1], G |-> rgb.b[2], B |-> rgb.b[3], A |-> 255]

Black == <<"0", "0", "0", "0", "0", "0">>
White == <<"f", "f", "f", "f", "f", "f">>

\* a contrast colour chosen from the first stop alone
GetContrastColorFirstStop(bgHex) ==
  LET g == parseGradientColors(bgHex)
      c == ParseHexColor(IF g[1] # <<>> THEN g[1] ELSE bgHex)
      lum == 2126 * c.R + 7152 * c.G + 722 * c.B
  IN  IF lum > 1275000 THEN Black ELSE White

\* GetContrastColor: luminance 0.2126 R + 0.7152 G + 0.0722 B over channels
\* normalised to 0..1, against 0.5; both sides multiplied by 10000 * 255
\* (and by 2 for the average of two gradient stops)
GetContrastColor(bgHex) ==
  LET g == parseGradientColors(bgHex)
      color1 == g[1]
      color2 == g[2]
  IN  IF color1 # <<>> /\ color2 # <<>>
      THEN LET c1 == ParseHexColor(color1)
               c2 == ParseHexColor(color2)
               lum == 2126 * (c1.R + c2.R) + 7152 * (c1.G + c2.G) + 722 * (c1.B + c2.B)
           IN  IF lum > 2550000 THEN Black ELSE White
      ELSE LET c == ParseHexColor(IF color1 # <<>> THEN color1 ELSE bgHex)
               lum == 2126 * c.R + 7152 * c.G + 722 * c.B
           IN  IF lum > 1275000 THEN Black ELSE White

\* crypto/md5 is not computed: a digest stands for itself, and two digests
\* are equal iff their inputs are
MD5(s) == [md5 |-> s]

\* A stand-in for the first three bytes of the MD5 digest of seed: three
\* bytes that depend on every character of seed and on its position.
Alphabet == Digits \o LowerLetters \o UpperLetters
Code(c) ==
  IF \E i \in 1..Len(Alphabet) : Alphabet[i] = c
  THEN CHOOSE i \in 1..Len(Alphabet) : Alphabet[i] = c
  ELSE 0

RECURSIVE DigestByte(_, _, _)
DigestByte(seed, k, acc) ==
  IF seed = <<>> THEN acc % 256
  ELSE DigestByte(Tail(seed), k, (acc * 31 + (Code(Head(seed)) + k) * 7) % 65536)

Hex2(b) == <<HexDigits[(b \div 16) + 1], HexDigits[(b % 16) + 1]>>

\* GenerateColorHash: fmt.Sprintf("%02x%02x%02x", hash[0], hash[1], hash[2])
GenerateColorHash(seed) ==
  Hex2(DigestByte(seed, 1, 17)) \o Hex2(DigestByte(seed, 2, 17)) \o Hex2(DigestByte(seed, 3, 17))

(***************************************************************************)
(* internal/render: text layout                                            *)
(***************************************************************************)
\* initials taken from the first token alone
GetInitialsFirstToken(name) ==
  LET parts == Fields(name)
  IN  IF parts = <<>> THEN <<>>
      ELSE ToUpper(SubSeq(parts[1], 1, Min(Len(parts[1]), 2)))

GetInitials(name) ==
  LET parts == Fields(name)
      n == Min(Len(parts), 2)
  IN  ToUpper([i \in 1..n |-> parts[i][1]])

JoinWord(line, word) == IF line # <<>> THEN line \o <<" ">> \o word ELSE word

\* a loop that drops a word too long for a line of its own
RECURSIVE wrapLoopSVGDropLong(_, _, _, _)
wrapLoopSVGDropLong(words, lines, currentLine, maxCharsPerLine) ==
  IF words = <<>>
  THEN (IF currentLine # <<>> THEN Append(lines, currentLine) ELSE lines)
  ELSE LET word == Head(words)
           testLine == JoinWord(currentLine, word)
       IN  IF Len(testLine) <= maxCharsPerLine
           THEN wrapLoopSVGDropLong(Tail(words), lines, testLine, maxCharsPerLine)
           ELSE IF currentLine # <<>>
                THEN wrapLoopSVGDropLong(Tail(words), Append(lines, currentLine), word, maxCharsPerLine)
                ELSE wrapLoopSVGDropLong(Tail(words), lines, <<>>, maxCharsPerLine)

\* the loop of wrapTextForSVG over the remaining words
RECURSIVE wrapLoopSVG(_, _, _, _)
wrapLoopSVG(words, lines, currentLine, maxCharsPerLine) ==
  IF words = <<>>
  THEN (IF currentLine # <<>> THEN Append(lines, currentLine) ELSE lines)
  ELSE LET word == Head(words)
           testLine == JoinWord(currentLine, word)
       IN  IF Len(testLine) <= maxCharsPerLine
           THEN wrapLoopSVG(Tail(words), lines, testLine, maxCharsPerLine)
           ELSE IF currentLine # <<>>
                THEN wrapLoopSVG(Tail(words), Append(lines, currentLine), word, maxCharsPerLine)
                ELSE wrapLoopSVG(Tail(words), Append(lines, word), <<>>, maxCharsPerLine)

\* a wrapper without the single-line answer for input that has no words
wrapTextForSVGNoFallback(text, imageWidth, fontSize) ==
  LET est == (8 * imageWidth * Scale) \div (6 * fontSize)
      maxCharsPerLine == IF est < MinCharsPerLine THEN MinCharsPerLine ELSE est
  IN  wrapLoopSVG(Fields(text), <<>>, <<>>, maxCharsPerLine)

\* wrapTextForSVG(text, imageWidth, fontSize); fontSize in units of 1/Scale
wrapTextForSVG(text, imageWidth, fontSize) ==
  LET est == (8 * imageWidth * Scale) \div (6 * fontSize)
      maxCharsPerLine == IF est < MinCharsPerLine THEN MinCharsPerLine ELSE est
      words == Fields(text)
      lines == wrapLoopSVG(words, <<>>, <<>>, maxCharsPerLine)
  IN  IF Len(words) = 0 THEN <<text>>
      ELSE IF Len(lines) = 0 THEN <<text>> ELSE lines

\* The advance of a character in thousandths of the font size; the metrics
\* of the embedded Go fonts are not reproduced, narrow and wide letters are.
Advance(c) ==
  IF c \in {"i", "l", " ", ".", ","} THEN 300
  ELSE IF c \in {"m", "w", "M", "W"} THEN 850
  ELSE 550

RECURSIVE SumAdvance(_)
SumAdvance(s) == IF s = <<>> THEN 0 ELSE Advance(Head(s)) + SumAdvance(Tail(s))

\* dc.MeasureString: the width of the line, in units of 1/(1000 Scale)
MeasureString(line, fontSize) == SumAdvance(line) * fontSize

\* the loop of wrapText over the remaining words
RECURSIVE wrapLoop(_, _, _, _, _)
wrapLoop(words, lines, currentLine, maxWidth, fontSize) ==
  IF words = <<>>
  THEN (IF currentLine # <<>> THEN Append(lines, currentLine) ELSE lines)
  ELSE LET word == Head(words)
           testLine == JoinWord(currentLine, word)
       IN  IF MeasureString(testLine, fontSize) <= maxWidth
           THEN wrapLoop(Tail(words), lines, testLine, maxWidth, fontSize)
           ELSE IF currentLine # <<>>
                THEN wrapLoop(Tail(words), Append(lines, currentLine), word, maxWidth, fontSize)
                ELSE wrapLoop(Tail(words), Append(lines, word), <<>>, maxWidth, fontSize)

\* Renderer.wrapText(dc, text, imageWidth, fontSize)
wrapText(text, imageWidth, fontSize) ==
  LET maxWidth == 800 * imageWidth * Scale
      words == Fields(text)
      lines == wrapLoop(words, <<>>, <<>>, maxWidth, fontSize)
  IN  IF Len(words) = 0 THEN <<text>>
      ELSE IF Len(lines) = 0 THEN <<text>> ELSE lines


(***************************************************************************)
(* internal/render: drawing and encoding                                   *)
(***************************************************************************)
FormatPNG == <<"p", "n", "g">>
FormatJPG == <<"j", "p", "g">>
FormatJPEG == <<"j", "p", "e", "g">>
FormatGIF == <<"g", "i", "f">>
FormatWebP == <<"w", "e", "b", "p">>
FormatSVG == <<"s", "v", "g">>

\* the fill of the background: a left to right gradient or a solid colour
RasterFill(bgHex) ==
  LET g == parseGradientColors(bgHex)
  IN  IF g[1] # <<>> /\ g[2] # <<>>
      THEN [kind |-> "gradient", c1 |-> ParseHexColor(g[1]), c2 |-> ParseHexColor(g[2])]
      ELSE [kind |-> "solid",
            c1 |-> ParseHexColor(IF g[1] # <<>> THEN g[1] ELSE bgHex), c2 |-> Gray]

\* a block whose height counts a full pitch for every line
drawMultiLineTextFullPitch(lines, width, height, fontSize) ==
  LET lineHeight == (fontSize * 3) \div 2
      totalHeight == Len(lines) * lineHeight
      startY2 == (height * Scale - totalHeight) + fontSize
  IN  [i \in 1..Len(lines) |->
         [s |-> lines[i], x2 |-> width * Scale, y2 |-> startY2 + 2 * (i - 1) * lineHeight]]

\* drawMultiLineText: the lines with their vertical positions, in units of
\* 1/(2 Scale)
drawMultiLineText(lines, width, height, fontSize) ==
  LET lineHeight == (fontSize * 3) \div 2
      totalHeight == fontSize + (Len(lines) - 1) * lineHeight
      startY2 == (height * Scale - totalHeight) + fontSize
  IN  [i \in 1..Len(lines) |->
         [s |-> lines[i], x2 |-> width * Scale, y2 |-> startY2 + 2 * (i - 1) * lineHeight]]

\* the pixels drawRasterImageWithWrapping hands to encodeImage, as the
\* drawing operations that produce them
rasterImage(w, h, bgHex, fgHex, text, rounded, bold, fontSize, isQuoteOrJoke) ==
  [w |-> w, h |-> h,
   fill |-> RasterFill(bgHex),
   shape |-> IF rounded
             THEN [kind |-> "circle", cx2 |-> w * Scale, cy2 |-> h * Scale, r2 |-> w * Scale]
             ELSE [kind |-> "rect", cx2 |-> 0, cy2 |-> 0, r2 |-> 0],
   bold |-> bold, fontSize |-> fontSize, fg |-> ParseHexColor(fgHex),
   texts |-> IF isQuoteOrJoke
             THEN drawMultiLineText(wrapText(text, w, fontSize), w, h, fontSize)
             ELSE <<[s |-> text, x2 |-> w * Scale, y2 |-> h * Scale]>>]

RasterFormats == {FormatPNG, FormatJPG, FormatJPEG, FormatGIF, FormatWebP}

Codec(format) == IF format = FormatJPG THEN FormatJPEG ELSE format

\* encodeImage: the encoded bytes, or an error when the format is not a
\* raster format or the encoder fails
encodeImage(img, format, fault) ==
  IF format \in RasterFormats /\ ~ fault
  THEN [err |-> FALSE, data |-> [codec |-> Codec(format), img |-> img]]
  ELSE [err |-> TRUE, data |-> <<>>]

drawRasterImageWithWrapping(w, h, bgHex, fgHex, text, rounded, bold, fontSize, isQuoteOrJoke, format, fault) ==
  encodeImage(rasterImage(w, h, bgHex, fgHex, text, rounded, bold, fontSize, isQuoteOrJoke),
              format, fault)

\* escapeXML: the five replacements, in the order the code applies them
EscapeChar(c) ==
  CASE c = "&" -> <<"&", "a", "m", "p", ";">>
    [] c = "<" -> <<"&", "l", "t", ";">>
    [] c = ">" -> <<"&", "g", "t", ";">>
    [] c = "\"" -> <<"&", "q", "u", "o", "t", ";">>
    [] c = "'" -> <<"&", "a", "p", "o", "s", ";">>
    [] OTHER -> <<c>>

RECURSIVE escapeXML(_)
escapeXML(s) == IF s = <<>> THEN <<>> ELSE EscapeChar(Head(s)) \o escapeXML(Tail(s))

\* the text elements of the document
svgTexts(w, h, fgHex, text, bold, fontSize, isQuoteOrJoke) ==
  LET fontWeight == IF bold THEN "bold" ELSE "normal"
  IN  IF isQuoteOrJoke
      THEN LET lines == wrapTextForSVG(text, w, fontSize)
               lineHeight == (fontSize * 3) \div 2
               totalHeight == Len(lines) * lineHeight
               centerY == (h * Scale) \div 2
               startY == centerY - (totalHeight - lineHeight) \div 2
           IN  [i \in 1..Len(lines) |->
                  [x |-> w \div 2, y |-> Round0(startY + (i - 1) * lineHeight),
                   fontSize |-> Round0(fontSize), fontWeight |-> fontWeight,
                   fill |-> <<"#">> \o fgHex, content |-> escapeXML(lines[i])]]
      ELSE <<[x |-> w \div 2, y |-> h \div 2,
              fontSize |-> Round0(fontSize), fontWeight |-> fontWeight,
              fill |-> <<"#">> \o fgHex, content |-> escapeXML(text)]>>

\* generateSVGWithWrapping: the document, element by element
generateSVGWithWrapping(w, h, bgHex, fgHex, text, rounded, bold, fontSize, isQuoteOrJoke) ==
  LET g == parseGradientColors(bgHex)
      color1 == g[1]
      color2 == g[2]
      radius == (IF h < w THEN h ELSE w) \div 2
      gradient == color1 # <<>> /\ color2 # <<>>
      gradientID == <<"g", "r", "a", "d", "_">> \o color1 \o <<"_">> \o color2
      fill == IF gradient THEN <<"u", "r", "l", "(", "#">> \o gradientID \o <<")">>
              ELSE <<"#">> \o (IF color1 # <<>> THEN color1 ELSE bgHex)
  IN  [err |-> FALSE,
       data |-> [codec |-> FormatSVG,
                 width |-> w, height |-> h,
                 defs |-> IF gradient
                          THEN <<[id |-> gradientID, stop0 |-> <<"#">> \o color1,
                                  stop100 |-> <<"#">> \o color2]>>
                          ELSE <<>>,
                 shape |-> IF rounded
                           THEN [kind |-> "circle", cx |-> w \div 2, cy |-> h \div 2,
                                 r |-> radius, width |-> 0, height |-> 0, fill |-> fill]
                           ELSE [kind |-> "rect", cx |-> 0, cy |-> 0, r |-> 0,
                                 width |-> w, height |-> h, fill |-> fill],
                 texts |-> svgTexts(w, h, fgHex, text, bold, fontSize, isQuoteOrJoke)]]

\* the font size DrawPlaceholderImage chooses, in units of 1/Scale
placeholderFontSize(w, h, text, isQuoteOrJoke) ==
  IF isQuoteOrJoke
  THEN LET textLen == ByteLen(text)
           base == IF textLen > 200 THEN (h * 5 * Scale) \div 100
                   ELSE IF textLen > 100 THEN (h * 6 * Scale) \div 100
                   ELSE (h * 8 * Scale) \div 100
       IN  IF base < MinFontSize * Scale THEN MinFontSize * Scale
           ELSE IF base > MaxFontSize * Scale THEN MaxFontSize * Scale
           ELSE base
  ELSE LET minDim == IF h < w THEN h ELSE w
       IN  IF ByteLen(text) > MinTextLengthForWrapping
           THEN Max((minDim * 15 * Scale) \div 100, 12 * Scale)
           ELSE (minDim * Scale) \div 2

DrawPlaceholderImage(w, h, bgHex, fgHex, text, isQuoteOrJoke, format, fault) ==
  LET fontSize == placeholderFontSize(w, h, text, isQuoteOrJoke)
  IN  IF format = FormatSVG
      THEN generateSVGWithWrapping(w, h, bgHex, fgHex, text, FALSE, TRUE, fontSize, isQuoteOrJoke)
      ELSE drawRasterImageWithWrapping(w, h, bgHex, fgHex, text, FALSE, TRUE, fontSize,
                                       isQuoteOrJoke, format, fault)

DrawImageWithFormat(w, h, bgHex, fgHex, text, rounded, bold, format, fault) ==
  LET minDim == IF h < w THEN h ELSE w
      fontSize == IF ByteLen(text) > MinTextLengthForWrapping
                  THEN Max((minDim * 15 * Scale) \div 100, 12 * Scale)
                  ELSE (minDim * Scale) \div 2
  IN  IF format = FormatSVG
      THEN generateSVGWithWrapping(w, h, bgHex, fgHex, text, rounded, bold, fontSize, FALSE)
      ELSE drawRasterImageWithWrapping(w, h, bgHex, fgHex, text, rounded, bold, fontSize,
                                       FALSE, format, fault)


(***************************************************************************)
(* internal/content: the quote and joke repository                         *)
(***************************************************************************)
ContentTypeQuote == "quote"
ContentTypeJoke == "joke"

Quote1 == <<"D", "o", " ", "i", "t">>
Quote2 == <<"G", "o", " ", "o", "n">>
Joke1 == <<"N", "o", " ", "b", "u", "g">>
CategoryLife == <<"l", "i", "f", "e">>
CategoryDev == <<"d", "e", "v">>

\* the loaded content: the items of each category
Quotes == { [category |-> CategoryLife, items |-> <<Quote1, Quote2>>] }
Jokes == { [category |-> CategoryDev, items |-> <<Joke1>>] }

\* a repository that ignores an unknown category and draws from everything
GetRandomAnyCategory(contentType, category) ==
  LET data == IF contentType = ContentTypeQuote THEN Quotes ELSE Jokes
      known == { d \in data : d.category = category }
      chosen == IF known # {} THEN known ELSE data
      all == UNION { { d.items[i] : i \in 1..Len(d.items) } : d \in chosen }
  IN  { [err |-> FALSE, text |-> t] : t \in all }

\* Manager.GetRandom: every item the random index can select, or an error
GetRandom(contentType, category) ==
  LET data == IF contentType = ContentTypeQuote THEN Quotes ELSE Jokes
      chosen == IF category # <<>> THEN { d \in data : d.category = category } ELSE data
      all == UNION { { d.items[i] : i \in 1..Len(d.items) } : d \in chosen }
  IN  IF contentType \notin {ContentTypeQuote, ContentTypeJoke} \/ all = {}
      THEN { [err |-> TRUE, text |-> <<>>] }
      ELSE { [err |-> FALSE, text |-> t] : t \in all }

(***************************************************************************)
(* internal/handlers: the avatar and placeholder endpoints                 *)
(***************************************************************************)
formatExtensions ==
  { [ext |-> <<".">> \o f, format |-> f] :
      f \in {FormatPNG, FormatJPG, FormatJPEG, FormatGIF, FormatWebP, FormatSVG} }

\* extractFormat: the format named by the extension and the name without it
extractFormat(filename) ==
  IF \E e \in formatExtensions : HasSuffix(filename, e.ext)
  THEN LET e == CHOOSE x \in formatExtensions : HasSuffix(filename, x.ext)
       IN  [format |-> e.format, name |-> TrimSuffix(filename, e.ext)]
  ELSE [format |-> FormatSVG, name |-> filename]

getContentType(format) ==
  CASE format = FormatPNG -> "image/png"
    [] format \in {FormatJPG, FormatJPEG} -> "image/jpeg"
    [] format = FormatGIF -> "image/gif"
    [] format = FormatWebP -> "image/webp"
    [] OTHER -> "image/svg+xml"

\* r.URL.Query().Get(k): the empty string when the parameter is absent
Query(r, k) == IF k \in DOMAIN r.query THEN r.query[k] ELSE <<>>

\* placeholderRegex ^(\d+)x(\d+)$ : the two groups, or no match
placeholderRegex(s) ==
  LET i == IndexOf(s, "x")
      wpart == SubSeq(s, 1, i - 1)
      hpart == SubSeq(s, i + 1, Len(s))
  IN  IF i > 0 /\ AllDigits(wpart) /\ AllDigits(hpart)
      THEN <<s, wpart, hpart>>
      ELSE <<>>

Colon == <<":">>
BoolString(b) == IF b THEN <<"t", "r", "u", "e">> ELSE <<"f", "a", "l", "s", "e">>
TrueParam == <<"t", "r", "u", "e">>
OneParam == <<"1">>
AvatarPrefix == <<"/", "a", "v", "a", "t", "a", "r", "/">>
PlaceholderPrefix == <<"/", "p", "l", "a", "c", "e", "h", "o", "l", "d", "e", "r", "/">>
DefaultName == <<"J", "o", "h", "n", " ", "D", "o", "e">>
RandomParam == <<"r", "a", "n", "d", "o", "m">>

\* the text handlePlaceholder falls back to: fmt.Sprintf("%d x %d", w, h)
DimensionText(width, height) == Itoa(width) \o <<" ", "x", " ">> \o Itoa(height)

\* whether the service was built with a content manager
contentManagerLoaded == TRUE

\* a handler that substitutes content at every width
placeholderTextsAnyWidth(r, width, height) ==
  LET quoteParam == Query(r, "quote")
      jokeParam == Query(r, "joke")
      category == Query(r, "category")
      text == Query(r, "text")
      fallback == IF text = <<>> THEN DimensionText(width, height) ELSE text
      pick(ct) ==
        { IF g.err THEN [text |-> fallback, isQuoteOrJoke |-> FALSE]
                   ELSE [text |-> g.text, isQuoteOrJoke |-> TRUE] :
          g \in GetRandom(ct, category) }
  IN  IF quoteParam \in {TrueParam, OneParam}
      THEN pick(ContentTypeQuote)
      ELSE IF jokeParam \in {TrueParam, OneParam}
      THEN pick(ContentTypeJoke)
      ELSE { [text |-> fallback, isQuoteOrJoke |-> FALSE] }

\* the text and the quote flag handlePlaceholder can arrive at
placeholderTexts(r, width, height) ==
  LET quoteParam == Query(r, "quote")
      jokeParam == Query(r, "joke")
      category == Query(r, "category")
      text == Query(r, "text")
      fallback == IF text = <<>> THEN DimensionText(width, height) ELSE text
      pick(ct) ==
        IF contentManagerLoaded
        THEN { IF g.err THEN [text |-> fallback, isQuoteOrJoke |-> FALSE]
                        ELSE [text |-> g.text, isQuoteOrJoke |-> TRUE] :
               g \in GetRandom(ct, category) }
        ELSE { [text |-> text, isQuoteOrJoke |-> FALSE] }
  IN  IF quoteParam \in {TrueParam, OneParam} /\ width >= MinWidthForQuoteJoke
      THEN pick(ContentTypeQuote)
      ELSE IF jokeParam \in {TrueParam, OneParam} /\ width >= MinWidthForQuoteJoke
      THEN pick(ContentTypeJoke)
      ELSE { [text |-> fallback, isQuoteOrJoke |-> FALSE] }

\* handlePlaceholder up to its call of serveImage: the cache key, the
\* format and the arguments the generator closure captures
placeholderCalls(r) ==
  LET ef == extractFormat(TrimPrefix(r.path, PlaceholderPrefix))
      format == ef.format
      matches == placeholderRegex(ef.name)
      width == IF Len(matches) = 3 THEN ParseIntOrDefault(matches[2], DefaultSize)
               ELSE ParseIntOrDefault(Query(r, "w"), DefaultSize)
      height == IF Len(matches) = 3 THEN ParseIntOrDefault(matches[3], DefaultSize)
                ELSE ParseIntOrDefault(Query(r, "h"), DefaultSize)
      bgHex == IF Query(r, "background") # <<>> THEN Query(r, "background")
               ELSE IF Query(r, "bg") # <<>> THEN Query(r, "bg")
               ELSE DefaultBgColor
      fgHex == IF Query(r, "color") # <<>> THEN Query(r, "color")
               ELSE GetContrastColor(bgHex)
  IN  { [key |-> <<"P", "H">> \o Colon \o Itoa(width) \o Colon \o Itoa(height) \o Colon
                   \o bgHex \o Colon \o fgHex \o Colon \o t.text \o Colon \o format,
         format |-> format,
         gen |-> [kind |-> "placeholder", w |-> width, h |-> height, bgHex |-> bgHex,
                  fgHex |-> fgHex, text |-> t.text, rounded |-> FALSE, bold |-> TRUE,
                  isQuoteOrJoke |-> t.isQuoteOrJoke, format |-> format]] :
        t \in placeholderTexts(r, width, height) }

\* handleAvatar up to its call of serveImage
avatarCalls(r) ==
  LET parts == Split(r.path, "/")
      fromPath == HasPrefix(r.path, AvatarPrefix) /\ Len(parts) > 2 /\ parts[3] # <<>>
      ef == IF fromPath THEN extractFormat(parts[3])
            ELSE [format |-> FormatSVG, name |-> Query(r, "name")]
      format == ef.format
      name == IF ef.name = <<>> THEN DefaultName ELSE ef.name
      size == ParseIntOrDefault(Query(r, "size"), DefaultSize)
      rounded == Query(r, "rounded") = TrueParam
      bold == Query(r, "bold") = TrueParam
      bg0 == IF Query(r, "background") # <<>> THEN Query(r, "background")
             ELSE IF Query(r, "bg") # <<>> THEN Query(r, "bg")
             ELSE DefaultAvatarBg
      bgHex == IF EqualFold(bg0, RandomParam) THEN GenerateColorHash(name) ELSE bg0
      fgHex == IF Query(r, "color") # <<>> THEN Query(r, "color")
               ELSE GetContrastColor(bgHex)
  IN  { [key |-> <<"A", "v", "a", "t", "a", "r">> \o Colon \o name \o Colon \o Itoa(size)
                   \o Colon \o BoolString(rounded) \o Colon \o BoolString(bold) \o Colon
                   \o bgHex \o Colon \o fgHex \o Colon \o format,
         format |-> format,
         gen |-> [kind |-> "avatar", w |-> size, h |-> size, bgHex |-> bgHex,
                  fgHex |-> fgHex, text |-> GetInitials(name), rounded |-> rounded,
                  bold |-> bold, isQuoteOrJoke |-> FALSE, format |-> format]] }

\* the generator closure handed to serveImage; fault says whether the
\* encoder fails
Generate(gen, fault) ==
  IF gen.kind = "placeholder"
  THEN DrawPlaceholderImage(gen.w, gen.h, gen.bgHex, gen.fgHex, gen.text,
                            gen.isQuoteOrJoke, gen.format, fault)
  ELSE DrawImageWithFormat(gen.w, gen.h, gen.bgHex, gen.fgHex, gen.text,
                           gen.rounded, gen.bold, gen.format, fault)

\* fmt.Sprintf("\"%x\"", md5.Sum([]byte(cacheKey)))
ETag(cacheKey) == <<"\"", MD5(cacheKey), "\"">>

CacheControl == "public, max-age=31536000, immutable"
ImageHeaderNames == {"Content-Type", "Cache-Control", "ETag"}
SecurityHeaderNames ==
  {"Content-Security-Policy", "X-Content-Type-Options", "X-Frame-Options", "X-XSS-Protection"}

\* the headers serveImage sets before it looks at the request
ImageHeaders(cacheKey, format) ==
  [n \in ImageHeaderNames |->
     CASE n = "Content-Type" -> getContentType(format)
       [] n = "Cache-Control" -> CacheControl
       [] n = "ETag" -> ETag(cacheKey)]

\* h with header n set to v
SetHeader(h, n, v) == [m \in DOMAIN h \cup {n} |-> IF m = n THEN v ELSE h[m]]

\* h without the headers in names
DelHeaders(h, names) == [m \in DOMAIN h \ names |-> h[m]]

setSecurityHeaders(h) ==
  [m \in DOMAIN h \cup SecurityHeaderNames |->
     CASE m = "Content-Security-Policy" ->
            "default-src 'self'; style-src 'self' 'unsafe-inline'; img-src 'self' data: https:; script-src 'self' 'unsafe-inline'"
       [] m = "X-Content-Type-Options" -> "nosniff"
       [] m = "X-Frame-Options" -> "DENY"
       [] m = "X-XSS-Protection" -> "1; mode=block"
       [] OTHER -> h[m]]

\* serveErrorPage on the headers h: the error page response
serveErrorPage(h, statusCode) ==
  [status |-> statusCode,
   headers |-> SetHeader(setSecurityHeaders(h), "Content-Type", "text/html; charset=utf-8"),
   body |-> [page |-> IF statusCode >= 400 /\ statusCode < 500 THEN "4xx" ELSE "5xx",
             code |-> statusCode]]

(***************************************************************************)
(* The cache: an LRU list, most recently used entry first.                 *)
(***************************************************************************)
KeysOf(c) == { c[i].key : i \in 1..Len(c) }
IndexOfKey(c, key) == CHOOSE i \in 1..Len(c) : c[i].key = key
Without(c, i) == SubSeq(c, 1, i - 1) \o SubSeq(c, i + 1, Len(c))

\* a variant of lruGet that leaves the list as it is
lruGetNoTouch(c, key) ==
  IF key \in KeysOf(c)
  THEN [ok |-> TRUE, value |-> c[IndexOfKey(c, key)].value, cache |-> c]
  ELSE [ok |-> FALSE, value |-> <<>>, cache |-> c]

\* Cache.Get: a hit moves the entry to the front
lruGet(c, key) ==
  IF key \in KeysOf(c)
  THEN LET i == IndexOfKey(c, key)
       IN  [ok |-> TRUE, value |-> c[i].value, cache |-> <<c[i]>> \o Without(c, i)]
  ELSE [ok |-> FALSE, value |-> <<>>, cache |-> c]

\* a variant of lruAdd that refuses a new key when the list is full
lruAddDropNew(c, key, value, size) ==
  IF key \in KeysOf(c)
  THEN <<[key |-> key, value |-> value]>> \o Without(c, IndexOfKey(c, key))
  ELSE IF Len(c) >= size THEN c ELSE <<[key |-> key, value |-> value]>> \o c

\* Cache.Add: an existing key gets the new value and moves to the front; a
\* new key is pushed to the front and the oldest entry is removed when the
\* list exceeds size
lruAdd(c, key, value, size) ==
  IF key \in KeysOf(c)
  THEN <<[key |-> key, value |-> value]>> \o Without(c, IndexOfKey(c, key))
  ELSE LET pushed == <<[key |-> key, value |-> value]>> \o c
       IN  IF Len(pushed) > size THEN SubSeq(pushed, 1, Len(pushed) - 1) ELSE pushed

\* the keys in the order of their last access, most recent first
Touch(rec, key) == <<key>> \o SelectSeq(rec, LAMBDA k : k # key)


(***************************************************************************)
(* SpecCache: the avatar and placeholder endpoints served by concurrent    *)
(* request goroutines over the shared cache, registered without a rate     *)
(* limiter as in the handler tests.                                        *)
(***************************************************************************)
NoQuery == <<>>

\* the request paths and query strings exercised
AvatarTargets ==
  { [path |-> <<"/", "a", "v", "a", "t", "a", "r", "/", "a", "b", ".", "p", "n", "g">>, query |-> NoQuery] }

PlaceholderTargets ==
  { [path |-> <<"/", "p", "l", "a", "c", "e", "h", "o", "l", "d", "e", "r", "/", "4", "0", "0", "x", "2", "0", "0", ".", "s", "v", "g">>, query |-> [text |-> Quote1]],
    [path |-> <<"/", "p", "l", "a", "c", "e", "h", "o", "l", "d", "e", "r", "/", "4", "0", "0", "x", "2", "0", "0", ".", "s", "v", "g">>, query |-> [quote |-> TrueParam]],
    [path |-> <<"/", "p", "l", "a", "c", "e", "h", "o", "l", "d", "e", "r", "/", "4", "0", "0", "x", "2", "0", "0", ".", "s", "v", "g">>, query |-> [quote |-> OneParam, category |-> CategoryDev]] }

\* a target with each If-None-Match value of interest: none, or the ETag
\* of a key the target can resolve to
WithINM(t, calls) ==
  { [path |-> t.path, query |-> t.query, inm |-> v] :
      v \in {<<>>} \cup { ETag(c.key) : c \in calls } }


\* the path and query of a request, without its headers
Target(r) == [path |-> r.path, query |-> r.query]

\* avatarCalls and placeholderCalls, tabulated over the targets
AvatarCallTable == [t \in AvatarTargets |-> avatarCalls(t)]
PlaceholderCallTable == [t \in PlaceholderTargets |-> placeholderCalls(t)]

\* Generate, tabulated over the generators the targets give rise to
Generators ==
  { c.gen : c \in UNION ({ AvatarCallTable[t] : t \in AvatarTargets } \cup
                         { PlaceholderCallTable[t] : t \in PlaceholderTargets }) }
GenerateTable == [g \in Generators |-> [fault \in BOOLEAN |-> Generate(g, fault)]]

AvatarRequests == UNION { WithINM(t, AvatarCallTable[t]) : t \in AvatarTargets }
PlaceholderRequests ==
  UNION { WithINM(t, PlaceholderCallTable[t]) : t \in PlaceholderTargets }

\* a variant of serveImage that consults the cache before it compares the
\* conditional token
serveImageGetFirst(p, r, call) ==
  LET etag == ETag(call.key)
      h == ImageHeaders(call.key, call.format)
      got == lruGet(cache, call.key)
  IN  /\ cache' = got.cache
      /\ recency' = IF got.ok THEN Touch(recency, call.key) ELSE recency
      /\ IF r.inm = etag
         THEN /\ lastAct' = [p |-> p, kind |-> "lookup", req |-> r, key |-> call.key,
                             gen |-> call.gen, get |-> TRUE, add |-> FALSE, render |-> FALSE, err |-> FALSE,
                             resp |-> [status |-> StatusNotModified, headers |-> h, body |-> <<>>]]
              /\ UNCHANGED <<pc, job>>
         ELSE IF got.ok
         THEN /\ lastAct' = [p |-> p, kind |-> "lookup", req |-> r, key |-> call.key,
                             gen |-> call.gen, get |-> TRUE, add |-> FALSE, render |-> FALSE, err |-> FALSE,
                             resp |-> [status |-> StatusOK,
                                       headers |-> SetHeader(h, "X-Cache", "HIT"),
                                       body |-> got.value]]
              /\ UNCHANGED <<pc, job>>
         ELSE /\ pc' = [pc EXCEPT ![p] = "generate"]
              /\ job' = [job EXCEPT ![p] = [key |-> call.key, format |-> call.format,
                                            gen |-> call.gen, req |-> r]]
              /\ lastAct' = [p |-> p, kind |-> "lookup", req |-> r, key |-> call.key,
                             gen |-> call.gen, get |-> TRUE, add |-> FALSE, render |-> FALSE, err |-> FALSE,
                             resp |-> NoResponse]
      /\ UNCHANGED cacheSize

\* serveImage up to the call of the generator: the headers, the
\* conditional request, the cache lookup
serveImage(p, r, call) ==
  LET etag == ETag(call.key)
      h == ImageHeaders(call.key, call.format)
      got == lruGet(cache, call.key)
  IN  IF r.inm = etag
      THEN /\ lastAct' = [p |-> p, kind |-> "lookup", req |-> r, key |-> call.key,
                          gen |-> call.gen, get |-> FALSE, add |-> FALSE, render |-> FALSE, err |-> FALSE,
                          resp |-> [status |-> StatusNotModified, headers |-> h, body |-> <<>>]]
           /\ UNCHANGED <<cacheSize, cache, recency, pc, job>>
      ELSE IF got.ok
      THEN /\ cache' = got.cache
           /\ recency' = Touch(recency, call.key)
           /\ lastAct' = [p |-> p, kind |-> "lookup", req |-> r, key |-> call.key,
                          gen |-> call.gen, get |-> TRUE, add |-> FALSE, render |-> FALSE, err |-> FALSE,
                          resp |-> [status |-> StatusOK,
                                    headers |-> SetHeader(h, "X-Cache", "HIT"),
                                    body |-> got.value]]
           /\ UNCHANGED <<cacheSize, pc, job>>
      ELSE /\ pc' = [pc EXCEPT ![p] = "generate"]
           /\ job' = [job EXCEPT ![p] = [key |-> call.key, format |-> call.format,
                                         gen |-> call.gen, req |-> r]]
           /\ lastAct' = [p |-> p, kind |-> "lookup", req |-> r, key |-> call.key,
                          gen |-> call.gen, get |-> TRUE, add |-> FALSE, render |-> FALSE, err |-> FALSE,
                          resp |-> NoResponse]
           /\ UNCHANGED <<cacheSize, cache, recency>>

handleAvatar(p, r) ==
  /\ pc[p] = "idle"
  /\ \E call \in AvatarCallTable[Target(r)] : serveImage(p, r, call)

handlePlaceholder(p, r) ==
  /\ pc[p] = "idle"
  /\ \E call \in PlaceholderCallTable[Target(r)] : serveImage(p, r, call)

\* a variant of serveImageGenerate that stores whatever the generator
\* returned and keeps the image headers on the error page
serveImageGenerateStoreAlways(p, fault) ==
  /\ pc[p] = "generate"
  /\ LET j == job[p]
         out == GenerateTable[j.gen][fault]
         h == ImageHeaders(j.key, j.format)
     IN  /\ cache' = lruAdd(cache, j.key, out.data, cacheSize)
         /\ recency' = Touch(recency, j.key)
         /\ lastAct' = [p |-> p, kind |-> "store", req |-> j.req, key |-> j.key,
                        gen |-> j.gen, get |-> FALSE, add |-> TRUE, render |-> TRUE,
                        err |-> out.err,
                        resp |-> IF out.err
                                 THEN [status |-> StatusInternalServerError,
                                       headers |-> setSecurityHeaders(h), body |-> <<>>]
                                 ELSE [status |-> StatusOK,
                                       headers |-> SetHeader(h, "X-Cache", "MISS"),
                                       body |-> out.data]]
  /\ pc' = [pc EXCEPT ![p] = "idle"]
  /\ job' = [job EXCEPT ![p] = NoJob]
  /\ UNCHANGED cacheSize

\* serveImage from the call of the generator on: the error page, or the
\* store and the response
serveImageGenerate(p, fault) ==
  /\ pc[p] = "generate"
  /\ LET j == job[p]
         out == GenerateTable[j.gen][fault]
         h == ImageHeaders(j.key, j.format)
     IN  IF out.err
         THEN /\ lastAct' = [p |-> p, kind |-> "store", req |-> j.req, key |-> j.key,
                             gen |-> j.gen, get |-> FALSE, add |-> FALSE, render |-> TRUE,
                             err |-> TRUE,
                             resp |-> serveErrorPage(DelHeaders(h, ImageHeaderNames),
                                                     StatusInternalServerError)]
              /\ UNCHANGED <<cache, recency>>
         ELSE /\ cache' = lruAdd(cache, j.key, out.data, cacheSize)
              /\ recency' = Touch(recency, j.key)
              /\ lastAct' = [p |-> p, kind |-> "store", req |-> j.req, key |-> j.key,
                             gen |-> j.gen, get |-> FALSE, add |-> TRUE, render |-> TRUE,
                             err |-> FALSE,
                             resp |-> [status |-> StatusOK,
                                       headers |-> SetHeader(h, "X-Cache", "MISS"),
                                       body |-> out.data]]
  /\ pc' = [pc EXCEPT ![p] = "idle"]
  /\ job' = [job EXCEPT ![p] = NoJob]
  /\ UNCHANGED cacheSize

\* RegisterRoutes with no rate limiter: the middleware is the identity
RateLimiterOff ==
  /\ now = 0
  /\ ticks = 0
  /\ rpm = 0
  /\ burst = 0
  /\ limiters = <<>>
  /\ buckets = <<>>
  /\ tickAt = 0
  /\ obs = <<>>
  /\ sweepLog = [removed |-> {}, kept |-> {}]

\* lru.New(cfg.CacheSize) with a positive size, and handlers.NewService
NewService ==
  /\ cacheSize \in 1..MaxCacheSize
  /\ cache = <<>>
  /\ pc = [p \in Procs |-> "idle"]
  /\ job = [p \in Procs |-> NoJob]
  /\ lastAct = NoAct
  /\ recency = <<>>

InitCache == RateLimiterOff /\ InitProcs /\ NewService /\ LockIdle /\ NoCall

NextCache ==
  \/ \E p \in Procs, r \in AvatarRequests :
       handleAvatar(p, r) /\ UNCHANGED <<rlVars, procVars, lockVars, pureVars>>
  \/ \E p \in Procs, r \in PlaceholderRequests :
       handlePlaceholder(p, r) /\ UNCHANGED <<rlVars, procVars, lockVars, pureVars>>
  \/ \E p \in Procs, fault \in BOOLEAN :
       serveImageGenerate(p, fault) /\ UNCHANGED <<rlVars, procVars, lockVars, pureVars>>

SpecCache == InitCache /\ [][NextCache]_vars


(***************************************************************************)
(* Claims about the cache (SpecCache).  Every step of SpecCache records in *)
(* lastAct the goroutine that took it, the request it served, the calls it *)
(* made on the cache and on the renderer and the response it wrote, so a   *)
(* step is recognised by the value lastAct has after it.                   *)
(***************************************************************************)
IsLookup(a) == a.kind = "lookup"
IsStore(a) == a.kind = "store"
Header(a, n) == IF n \in DOMAIN a.resp.headers THEN a.resp.headers[n] ELSE ""
IsHit(a) == IsLookup(a) /\ a.resp.status = StatusOK /\ Header(a, "X-Cache") = "HIT"

\* C5: a successful first computation is answered 200 with X-Cache: MISS
\* and the ETag of its fingerprint
C5_FirstIsMiss ==
  IsStore(lastAct') /\ ~ lastAct'.err =>
    /\ lastAct'.resp.status = StatusOK
    /\ Header(lastAct', "X-Cache") = "MISS"
    /\ lastAct'.resp.headers["ETag"] = ETag(lastAct'.key)

\* C5: the identical request served immediately after that computation, when
\* it resolves to the same fingerprint, is answered with the same ETag,
\* X-Cache: HIT and the same body
C5_RepeatIsHit ==
  /\ IsStore(lastAct) /\ ~ lastAct.err
  /\ IsLookup(lastAct') /\ lastAct'.req = lastAct.req
  /\ lastAct'.key = lastAct.key
  => /\ IsHit(lastAct')
     /\ lastAct'.resp.headers["ETag"] = lastAct.resp.headers["ETag"]
     /\ lastAct'.resp.body = lastAct.resp.body

C6_ConditionalShortCircuits ==
  [][ IsLookup(lastAct') /\ lastAct'.req.inm = ETag(lastAct'.key) =>
        /\ lastAct'.resp.status = StatusNotModified
        /\ lastAct'.resp.body = <<>>
        /\ ~ lastAct'.get /\ ~ lastAct'.add /\ ~ lastAct'.render
        /\ cache' = cache
        /\ recency' = recency
        /\ pc' = pc /\ job' = job ]_vars

\* a 304 for a fingerprint that is cached behind a more recent entry
C6_Witness ==
  /\ IsLookup(lastAct)
  /\ lastAct.resp.status = StatusNotModified
  /\ lastAct.key \in KeysOf(cache)
  /\ cache[1].key # lastAct.key

\* C7: a response marked X-Cache: HIT carries the bytes that rendering the
\* request afresh produces
C7_HitEqualsFreshRender ==
  IsHit(lastAct) => lastAct.resp.body = GenerateTable[lastAct.gen][FALSE].data

\* the key of s that was accessed least recently
LeastRecent(rec, s) ==
  CHOOSE k \in s :
    \A other \in s :
      (CHOOSE i \in 1..Len(rec) : rec[i] = other) <= (CHOOSE i \in 1..Len(rec) : rec[i] = k)

C8_Bounded == Len(cache) <= cacheSize /\ Cardinality(KeysOf(cache)) = Len(cache)

C8_Evicts ==
  \A k \in KeysOf(cache) \ KeysOf(cache') :
    /\ IsStore(lastAct') /\ lastAct'.add
    /\ lastAct'.key \notin KeysOf(cache)
    /\ Len(cache) = cacheSize
    /\ KeysOf(cache') = (KeysOf(cache) \ {k}) \cup {lastAct'.key}
    /\ k = LeastRecent(recency, KeysOf(cache))

\* C8: the cache never holds more than cacheSize entries, and an entry
\* leaves it only when a new key is stored in the full cache, the entry
\* leaving being the one accessed (hit by Get, or stored by Add) least
\* recently
C8_CapacityAndLRU == [] C8_Bounded /\ [][C8_Evicts]_vars

\* a store into a cache of two or more entries has just evicted a key
C8_Witness ==
  /\ IsStore(lastAct) /\ lastAct.add
  /\ cacheSize >= 2
  /\ Len(cache) = cacheSize
  /\ \E i \in 1..Len(recency) : recency[i] \notin KeysOf(cache)

\* C9: when the generator returns an error the response is the 500 error
\* page without Cache-Control and ETag and with an HTML Content-Type, no
\* call of Add is made and the cache is as it was
C9_RenderErrorNotCached ==
  [][ IsStore(lastAct') /\ lastAct'.err =>
        /\ lastAct'.resp.status = StatusInternalServerError
        /\ "Cache-Control" \notin DOMAIN lastAct'.resp.headers
        /\ "ETag" \notin DOMAIN lastAct'.resp.headers
        /\ Header(lastAct', "Content-Type") = "text/html; charset=utf-8"
        /\ lastAct'.resp.body # <<>>
        /\ ~ lastAct'.add
        /\ cache' = cache
        /\ recency' = recency ]_vars

\* an encoder failure answered while the cache holds other entries
C9_Witness ==
  /\ IsStore(lastAct) /\ lastAct.err
  /\ lastAct.resp.status = StatusInternalServerError
  /\ cache # <<>>
  /\ lastAct.key \notin KeysOf(cache)

\* C10: when two goroutines that missed the cache on the same fingerprint
\* store one after the other, both responses carry the same bytes, and the
\* cache then holds one entry for the fingerprint, with those bytes, within
\* its capacity
C10_ConcurrentMissesAgree ==
  [][ /\ IsStore(lastAct) /\ ~ lastAct.err
      /\ IsStore(lastAct') /\ ~ lastAct'.err
      /\ lastAct'.p # lastAct.p
      /\ lastAct'.key = lastAct.key
      => /\ lastAct'.resp.body = lastAct.resp.body
         /\ Cardinality({ i \in 1..Len(cache') : cache'[i].key = lastAct'.key }) = 1
         /\ \A i \in 1..Len(cache') :
              cache'[i].key = lastAct'.key => cache'[i].value = lastAct.resp.body
         /\ Len(cache') <= cacheSize ]_vars


(***************************************************************************)
(* SpecSweep: the rate limiter with its lock.  Request goroutines run      *)
(* Middleware statement by statement and the cleanup goroutine runs the    *)
(* loop of cleanupStaleEntries entry by entry, all contending for rl.mu.   *)
(***************************************************************************)
Sweeper == 3

\* a goroutine that holds a limiter keeps it alive after its entry is deleted
HeapPtrs == 1..(Cardinality(IPs) + Cardinality(Procs))
Roots(lims, hd) == Live(lims) \cup ({ hd[p] : p \in Procs } \ {NoPtr})
Reach(f, lims, hd) == [h \in Roots(lims, hd) |-> f[h]]

\* Middleware line 113, and the call of getLimiter up to rl.mu.Lock()
startRequest(p, r) ==
  /\ apc[p] = "idle"
  /\ apc' = [apc EXCEPT ![p] = "lock"]
  /\ ipOf' = [ipOf EXCEPT ![p] = getIP(r)]
  /\ resp' = [resp EXCEPT ![p] = NoResponse]
  /\ invoked' = [invoked EXCEPT ![p] = FALSE]
  /\ UNCHANGED <<now, ticks, rpm, burst, limiters, buckets, tickAt, obs, sweepLog,
                 mu, held, spc, todo, sweepNow>>

\* rl.mu.Lock() at line 45 returns
mutexLock(p) ==
  /\ apc[p] = "lock"
  /\ mu = 0
  /\ mu' = p
  /\ apc' = [apc EXCEPT ![p] = "locked"]
  /\ UNCHANGED <<rlVars, procVars, ipOf, held, spc, todo, sweepNow>>

\* a variant of lockedGetLimiter that installs a new limiter on every call
lockedGetLimiterAlwaysNew(p) ==
  /\ apc[p] = "locked"
  /\ mu = p
  /\ LET ip == ipOf[p]
         h == CHOOSE n \in HeapPtrs \ Roots(limiters, held) :
                \A g \in HeapPtrs \ Roots(limiters, held) : n <= g
     IN  /\ limiters' = [i \in DOMAIN limiters \cup {ip} |->
                           IF i = ip THEN [limiter |-> h, lastAccess |-> now]
                           ELSE limiters[i]]
         /\ buckets' = [g \in DOMAIN buckets \cup {h} |->
                          IF g = h THEN NewLimiter(burst) ELSE buckets[g]]
         /\ held' = [held EXCEPT ![p] = h]
  /\ mu' = 0
  /\ apc' = [apc EXCEPT ![p] = "allow"]
  /\ UNCHANGED <<now, ticks, rpm, burst, tickAt, obs, sweepLog, procVars,
                 ipOf, spc, todo, sweepNow>>

\* getLimiter lines 48-62 and the deferred rl.mu.Unlock()
lockedGetLimiter(p) ==
  /\ apc[p] = "locked"
  /\ mu = p
  /\ LET ip == ipOf[p]
         h == IF ip \in DOMAIN limiters THEN limiters[ip].limiter
              ELSE CHOOSE n \in HeapPtrs \ Roots(limiters, held) :
                     \A g \in HeapPtrs \ Roots(limiters, held) : n <= g
     IN  /\ limiters' = IF ip \in DOMAIN limiters
                        THEN [limiters EXCEPT ![ip].lastAccess = now]
                        ELSE [i \in DOMAIN limiters \cup {ip} |->
                                IF i = ip THEN [limiter |-> h, lastAccess |-> now]
                                ELSE limiters[i]]
         /\ buckets' = IF ip \in DOMAIN limiters THEN buckets
                       ELSE [g \in DOMAIN buckets \cup {h} |->
                               IF g = h THEN NewLimiter(burst) ELSE buckets[g]]
         /\ held' = [held EXCEPT ![p] = h]
  /\ mu' = 0
  /\ apc' = [apc EXCEPT ![p] = "allow"]
  /\ UNCHANGED <<now, ticks, rpm, burst, tickAt, obs, sweepLog, procVars,
                 ipOf, spc, todo, sweepNow>>

\* Middleware lines 116-121: limiter.Allow() and the response
allowAndRespond(p) ==
  /\ apc[p] = "allow"
  /\ LET h == held[p]
         a == Allow(buckets[h], now)
         hd == [held EXCEPT ![p] = NoPtr]
     IN  /\ held' = hd
         /\ buckets' = Reach([buckets EXCEPT ![h] = a.lim], limiters, hd)
         /\ resp' = [resp EXCEPT ![p] = IF a.ok THEN StubResponse ELSE TooManyRequests]
         /\ invoked' = [invoked EXCEPT ![p] = a.ok]
  /\ apc' = [apc EXCEPT ![p] = "idle"]
  /\ ipOf' = [ipOf EXCEPT ![p] = <<>>]
  /\ UNCHANGED <<now, ticks, rpm, burst, limiters, tickAt, obs, sweepLog,
                 mu, spc, todo, sweepNow>>

\* the ticker fires: the range over ticker.C at line 70 yields
sweepTick ==
  /\ spc = "ticker"
  /\ now >= tickAt
  /\ tickAt' = tickAt + CleanupInterval
  /\ spc' = "lock"
  /\ UNCHANGED <<now, ticks, rpm, burst, limiters, buckets, obs, sweepLog, procVars,
                 mu, apc, ipOf, held, todo, sweepNow>>

\* lines 71-72: rl.mu.Lock() returns, now := time.Now(), the range begins
sweepLock ==
  /\ spc = "lock"
  /\ mu = 0
  /\ mu' = Sweeper
  /\ sweepNow' = now
  /\ todo' = DOMAIN limiters
  /\ spc' = "scan"
  /\ UNCHANGED <<rlVars, procVars, apc, ipOf, held>>

\* lines 74-78: one iteration of the range over rl.limiters
sweepVisit(ip) ==
  /\ spc = "scan"
  /\ ip \in todo
  /\ todo' = todo \ {ip}
  /\ LET lims == IF sweepNow - limiters[ip].lastAccess > IdleThreshold
                 THEN [i \in DOMAIN limiters \ {ip} |-> limiters[i]]
                 ELSE limiters
     IN  /\ limiters' = lims
         /\ buckets' = Reach(buckets, lims, held)
  /\ UNCHANGED <<now, ticks, rpm, burst, tickAt, obs, sweepLog, procVars,
                 mu, apc, ipOf, held, spc, sweepNow>>

\* a variant of sweepUnlock that goes back to the ticker with the lock held
sweepUnlockMissing ==
  /\ spc = "scan"
  /\ todo = {}
  /\ spc' = "ticker"
  /\ sweepNow' = 0
  /\ UNCHANGED <<rlVars, procVars, mu, apc, ipOf, held, todo>>

\* line 79: rl.mu.Unlock(), back to waiting for the ticker
sweepUnlock ==
  /\ spc = "scan"
  /\ todo = {}
  /\ mu' = 0
  /\ spc' = "ticker"
  /\ sweepNow' = 0
  /\ UNCHANGED <<rlVars, procVars, apc, ipOf, held, todo>>

\* time passes, somewhat more than a cleanup interval at a time
elapse(d) ==
  /\ ticks < MaxSweepTicks
  /\ ticks' = ticks + 1
  /\ now' = now + d
  /\ UNCHANGED <<rpm, burst, limiters, buckets, tickAt, obs, sweepLog, procVars, lockVars>>

\* NewRateLimiter(60, 1), as in TestRateLimiterExceeded
NewRateLimiterExceeded ==
  /\ now = 0
  /\ ticks = 0
  /\ rpm = 60
  /\ burst = 1
  /\ limiters = <<>>
  /\ buckets = <<>>
  /\ tickAt = CleanupInterval
  /\ obs = <<>>
  /\ sweepLog = [removed |-> {}, kept |-> {}]

InitSweep == NewRateLimiterExceeded /\ InitProcs /\ CacheOff /\ LockIdle /\ NoCall

NextSweep ==
  \/ \E p \in Procs, r \in RLRequests : startRequest(p, r) /\ UNCHANGED <<cacheVars, pureVars>>
  \/ \E p \in Procs : mutexLock(p) /\ UNCHANGED <<cacheVars, pureVars>>
  \/ \E p \in Procs : lockedGetLimiter(p) /\ UNCHANGED <<cacheVars, pureVars>>
  \/ \E p \in Procs : allowAndRespond(p) /\ UNCHANGED <<cacheVars, pureVars>>
  \/ sweepTick /\ UNCHANGED <<cacheVars, pureVars>>
  \/ sweepLock /\ UNCHANGED <<cacheVars, pureVars>>
  \/ \E ip \in IPs : sweepVisit(ip) /\ UNCHANGED <<cacheVars, pureVars>>
  \/ sweepUnlock /\ UNCHANGED <<cacheVars, pureVars>>
  \/ \E d \in {CleanupInterval + Quantum} : elapse(d) /\ UNCHANGED <<cacheVars, pureVars>>

SpecSweep == InitSweep /\ [][NextSweep]_vars

\* The scheduler runs every goroutine that can take a step, and sync.Mutex
\* hands the lock to a goroutine that keeps waiting for it (starvation mode).
FairSweep ==
  /\ \A p \in Procs : SF_vars(mutexLock(p) /\ UNCHANGED <<cacheVars, pureVars>>)
  /\ \A p \in Procs : WF_vars(lockedGetLimiter(p) /\ UNCHANGED <<cacheVars, pureVars>>)
  /\ \A p \in Procs : WF_vars(allowAndRespond(p) /\ UNCHANGED <<cacheVars, pureVars>>)
  /\ SF_vars(sweepLock /\ UNCHANGED <<cacheVars, pureVars>>)
  /\ WF_vars((\E ip \in IPs : sweepVisit(ip)) /\ UNCHANGED <<cacheVars, pureVars>>)
  /\ WF_vars(sweepUnlock /\ UNCHANGED <<cacheVars, pureVars>>)

SpecSweepFair == SpecSweep /\ FairSweep

\* C11: a request goroutine that has entered Middleware eventually obtains
\* its limiter and writes its response, and the cleanup goroutine, once it
\* holds rl.mu, eventually releases it
C11_AdmitReturns ==
  /\ \A p \in Procs : (apc[p] # "idle") ~> (apc[p] = "idle" /\ resp[p] # NoResponse)
  /\ (mu = Sweeper) ~> (mu # Sweeper)

\* a request goroutine waits for rl.mu while the cleanup goroutine holds it
\* in the middle of its scan
C11_Witness ==
  /\ mu = Sweeper
  /\ todo # {}
  /\ \E p \in Procs : apc[p] = "lock"


(***************************************************************************)
(* SpecIdentity: one client connection sending requests with every         *)
(* combination of forwarding chain, real-IP header and peer address        *)
(* through the middleware; arg is the request served last and res the      *)
(* identity getIP resolved for it.                                         *)
(***************************************************************************)
serveIdentified(r) ==
  /\ Middleware(Main, r)
  /\ arg' = r
  /\ res' = getIP(r)

InitIdentity == NewRateLimiterExceeded /\ InitProcs /\ CacheOff /\ LockIdle /\ NoCall

NextIdentity ==
  \E r \in IdRequests : serveIdentified(r) /\ UNCHANGED <<cacheVars, lockVars>>

SpecIdentity == InitIdentity /\ [][NextIdentity]_vars

\* the first comma separated value of a forwarding chain, trimmed
FirstForwarded(chain) ==
  LET i == IndexOf(chain, ",")
  IN  TrimSpace(IF i = 0 THEN chain ELSE SubSeq(chain, 1, i - 1))

\* the peer address without its port
PeerHost(addr) ==
  IF \E i \in 1..Len(addr) : addr[i] = ":"
  THEN SubSeq(addr, 1, (CHOOSE i \in 1..Len(addr) :
                          addr[i] = ":" /\ \A j \in (i + 1)..Len(addr) : addr[j] # ":") - 1)
  ELSE addr

C12_Resolved ==
  arg # <<>> =>
    /\ res = IF arg.xff # <<>> THEN FirstForwarded(arg.xff)
             ELSE IF arg.realIP # <<>> THEN arg.realIP
             ELSE PeerHost(arg.remoteAddr)
    /\ res \in DOMAIN limiters

C12_SharedBucket ==
  /\ arg # <<>> /\ arg.xff # <<>>
  /\ arg'.xff # <<>>
  /\ FirstForwarded(arg'.xff) = FirstForwarded(arg.xff)
  => /\ res' = res
     /\ DOMAIN limiters' = DOMAIN limiters
     /\ limiters'[res'].limiter = limiters[res].limiter

\* C12: the identity is the first value of X-Forwarded-For, trimmed, when
\* that header is present, else the X-Real-IP value when present, else the
\* peer address without its port; and a request whose forwarding chain has
\* the same first value as the previous request's uses the same registry
\* entry and bucket, whatever the rest of the chain, X-Real-IP and the peer
C12_IdentityPrecedence == [] C12_Resolved /\ [][C12_SharedBucket]_vars

\* a request with a chain of two values, X-Real-IP and a peer address was
\* rejected on the bucket of the chain's first value
C12_Witness ==
  /\ arg # <<>>
  /\ Len(arg.xff) > 1 /\ arg.realIP # <<>>
  /\ res = <<"2">>
  /\ resp[Main] = TooManyRequests


(***************************************************************************)
(* SpecRender: the renderer called directly, as in render_test.go, with    *)
(* sizes, colour specs, texts and formats of every kind, among them a      *)
(* format that is none of the six constants and strings that hold          *)
(* reserved markup characters.  arg is the call made, res its result; each *)
(* behaviour makes one call.                                               *)
(***************************************************************************)
UnknownFormat == <<"b", "m", "p">>
RenderFormats == {FormatSVG, FormatPNG, FormatWebP, UnknownFormat}
RenderSizes == {2, 128, 301}
RenderTexts ==
  { <<"A">>, <<CapitalEAcute, "B">>, <<"D", "o", " ", "i", "t", " ", "a", "g", "a", "i", "n", " ", "n", "o", "w">>,
    <<"a", "<", "b", " ", "&", " ", "\"", "c", "'", ">">> }
RenderBgs == { <<"c", "c", "c", "c", "c", "c">>, <<"f", "0", "0", ",", "0", "0", "f">>, <<"\"", "/", ">", "<", "a", " ", "b", "=", "'">>, <<"0", "<", "1", ",", "2", "&", "3">> }
RenderFgs == { <<"0", "0", "0", "0", "0", "0">>, <<"'", ">", "<", "c", " ", "d", "=", "\"">> }

callDrawImageWithFormat(w, h, bgHex, fgHex, text, rounded, bold, format, fault) ==
  /\ arg = <<>>
  /\ arg' = [fn |-> "DrawImageWithFormat", w |-> w, h |-> h, bgHex |-> bgHex,
             fgHex |-> fgHex, text |-> text, rounded |-> rounded, bold |-> bold,
             isQuoteOrJoke |-> FALSE, format |-> format]
  /\ res' = DrawImageWithFormat(w, h, bgHex, fgHex, text, rounded, bold, format, fault)

callDrawPlaceholderImage(w, h, bgHex, fgHex, text, isQuoteOrJoke, format, fault) ==
  /\ arg = <<>>
  /\ arg' = [fn |-> "DrawPlaceholderImage", w |-> w, h |-> h, bgHex |-> bgHex,
             fgHex |-> fgHex, text |-> text, rounded |-> FALSE, bold |-> TRUE,
             isQuoteOrJoke |-> isQuoteOrJoke, format |-> format]
  /\ res' = DrawPlaceholderImage(w, h, bgHex, fgHex, text, isQuoteOrJoke, format, fault)

InitRender == RateLimiterOff /\ InitProcs /\ CacheOff /\ LockIdle /\ NoCall

NextRender ==
  \/ \E w \in RenderSizes, h \in RenderSizes, bgHex \in RenderBgs, fgHex \in RenderFgs,
        text \in RenderTexts, rounded \in BOOLEAN, bold \in BOOLEAN,
        format \in RenderFormats, fault \in BOOLEAN :
       /\ callDrawImageWithFormat(w, h, bgHex, fgHex, text, rounded, bold, format, fault)
       /\ UNCHANGED <<rlVars, procVars, cacheVars, lockVars>>
  \/ \E w \in RenderSizes, h \in RenderSizes, bgHex \in RenderBgs, fgHex \in RenderFgs,
        text \in RenderTexts, isQuoteOrJoke \in BOOLEAN, format \in RenderFormats,
        fault \in BOOLEAN :
       /\ callDrawPlaceholderImage(w, h, bgHex, fgHex, text, isQuoteOrJoke, format, fault)
       /\ UNCHANGED <<rlVars, procVars, cacheVars, lockVars>>

SpecRender == InitRender /\ [][NextRender]_vars

\* C13: a call with a format that is none of the known ones returns the
\* WebP encoding of the image and no error
C13_UnknownFormatFallsBack ==
  arg # <<>> /\ arg.format = UnknownFormat =>
    /\ ~ res.err
    /\ res.data.codec = FormatWebP


(***************************************************************************)
(* SpecResolve: handleAvatar and handlePlaceholder up to the call of       *)
(* serveImage, on requests with every combination of path, numbers, flags, *)
(* category and text.  arg is the request, res the cache key, format and   *)
(* generator arguments the handler arrived at; each behaviour resolves one *)
(* request.                                                                *)
(***************************************************************************)
CategoryUnknown == <<"z", "z", "z">>
TextParam == <<"H", "i">>

\* number strings: absent, not a number, negative, zero, and positive ones
\* below and above 4096
NumberStrings == { <<>>, <<"a", "b", "c">>, <<"-", "5">>, <<"0">>, <<"6", "4">>, <<"3", "5", "0">>, <<"4", "0", "9", "7">> }

ResolvePlaceholderTargets ==
  { [path |-> PlaceholderPrefix \o m,
     query |-> [w |-> w, h |-> h, quote |-> q, joke |-> j, category |-> c, text |-> t]] :
      m \in { <<>>, <<"4", "0", "0", "x", "2", "0", "0", ".", "s", "v", "g">>, <<"2", "9", "9", "x", "1", "0", "0">>, <<"5", "0", "0", "0", "x", "4", "0", "9", "7", ".", "p", "n", "g">>,
               <<"0", "x", "7">>, <<"-", "5", "x", "7">> },
      w \in NumberStrings,
      h \in { <<>>, <<"0">>, <<"9">> },
      q \in { <<>>, TrueParam, OneParam, <<"y", "e", "s">> },
      j \in { <<>>, TrueParam },
      c \in { <<>>, CategoryLife, CategoryDev, CategoryUnknown },
      t \in { <<>>, TextParam } }

ResolveAvatarTargets ==
  { [path |-> AvatarPrefix \o n, query |-> [size |-> z, name |-> m]] :
      n \in { <<>>, <<"a", "b", ".", "p", "n", "g">> },
      z \in NumberStrings,
      m \in { <<>>, <<"x", " ", "y">> } }

resolvePlaceholder(t) ==
  /\ arg = <<>>
  /\ \E call \in placeholderCalls(t) :
       /\ arg' = t
       /\ res' = call

resolveAvatar(t) ==
  /\ arg = <<>>
  /\ \E call \in avatarCalls(t) :
       /\ arg' = t
       /\ res' = call

InitResolve == RateLimiterOff /\ InitProcs /\ CacheOff /\ LockIdle /\ NoCall

NextResolve ==
  \/ \E t \in ResolvePlaceholderTargets :
       resolvePlaceholder(t) /\ UNCHANGED <<rlVars, procVars, cacheVars, lockVars>>
  \/ \E t \in ResolveAvatarTargets :
       resolveAvatar(t) /\ UNCHANGED <<rlVars, procVars, cacheVars, lockVars>>

SpecResolve == InitResolve /\ [][NextResolve]_vars

(***************************************************************************)
(* What a resolved request lays out: the lines of text of the image the    *)
(* generator produces when the encoder does not fail.                      *)
(***************************************************************************)
IsPlaceholderCall == arg # <<>> /\ res.gen.kind = "placeholder"
QuoteFlagged == arg.query.quote \in {TrueParam, OneParam}
JokeFlagged == arg.query.joke \in {TrueParam, OneParam}

RenderedLines ==
  LET out == Generate(res.gen, FALSE)
  IN  IF res.format = FormatSVG
      THEN [i \in 1..Len(out.data.texts) |-> out.data.texts[i].content]
      ELSE [i \in 1..Len(out.data.img.texts) |-> out.data.img.texts[i].s]

\* the text of a request that substitutes nothing: its text parameter, or
\* the dimension string when it has none
OwnText ==
  IF arg.query.text # <<>> THEN arg.query.text ELSE DimensionText(res.gen.w, res.gen.h)

SingleLine(text) ==
  /\ ~ res.gen.isQuoteOrJoke
  /\ RenderedLines = <<IF res.format = FormatSVG THEN escapeXML(text) ELSE text>>

\* C14 (as amended): a placeholder request with the quote or joke flag
\* set and a resolved width below 300 never has its text replaced by
\* repository content: it renders its own text parameter, or the
\* "{w} x {h}" string when it has none, as one unwrapped line.  At width
\* 300 or more, with a category the repository knows (or none), the text is
\* one of the quotes (quote flag) or jokes (joke flag alone).
C14_NarrowQuoteKeepsOwnText ==
  IsPlaceholderCall /\ (QuoteFlagged \/ JokeFlagged) =>
    /\ res.gen.w < MinWidthForQuoteJoke =>
         /\ res.gen.text = OwnText
         /\ SingleLine(OwnText)
    /\ /\ res.gen.w >= MinWidthForQuoteJoke
       /\ QuoteFlagged
       /\ arg.query.category \in {<<>>, CategoryLife}
       => res.gen.text \in {Quote1, Quote2} /\ res.gen.isQuoteOrJoke
    /\ /\ res.gen.w >= MinWidthForQuoteJoke
       /\ ~ QuoteFlagged
       /\ arg.query.category \in {<<>>, CategoryDev}
       => res.gen.text = Joke1 /\ res.gen.isQuoteOrJoke

C14_Witness ==
  /\ IsPlaceholderCall /\ QuoteFlagged
  /\ res.gen.w = 299
  /\ arg.query.text = <<>>
  /\ res.gen.text = DimensionText(299, 100)

\* C14 (as stated): below the minimum width the rendered text is always
\* the default dimension string.
C14_NarrowQuoteIsDimensionText ==
  IsPlaceholderCall /\ (QuoteFlagged \/ JokeFlagged) /\ res.gen.w < MinWidthForQuoteJoke =>
    /\ res.gen.text = DimensionText(res.gen.w, res.gen.h)
    /\ SingleLine(DimensionText(res.gen.w, res.gen.h))

\* the category of the request is not one the repository has for the kind
\* of content its flags ask for
UnknownCategory ==
  LET data == IF QuoteFlagged THEN Quotes ELSE Jokes
  IN  /\ arg.query.category # <<>>
      /\ arg.query.category \notin { d.category : d \in data }

\* C15 (as amended): a placeholder request with the quote or joke flag
\* set, width at least 300 and a category the repository does not know is
\* not an error: the image is generated, its text is the request's own text
\* parameter, or the "{w} x {h}" string when it has none, and it is laid out
\* as one unwrapped line.
C15_UnknownCategoryKeepsOwnText ==
  /\ IsPlaceholderCall
  /\ QuoteFlagged \/ JokeFlagged
  /\ res.gen.w >= MinWidthForQuoteJoke
  /\ UnknownCategory
  => /\ ~ Generate(res.gen, FALSE).err
     /\ res.gen.text = OwnText
     /\ SingleLine(OwnText)

C15_Witness ==
  /\ IsPlaceholderCall /\ QuoteFlagged
  /\ res.gen.w = 400
  /\ arg.query.category = CategoryUnknown
  /\ arg.query.text = <<>>
  /\ res.gen.text = DimensionText(400, 200)
  /\ ~ res.gen.isQuoteOrJoke

\* C15 (as stated): with an unknown category the text is always the default
\* dimension string.
C15_UnknownCategoryIsDimensionText ==
  /\ IsPlaceholderCall
  /\ QuoteFlagged \/ JokeFlagged
  /\ res.gen.w >= MinWidthForQuoteJoke
  /\ UnknownCategory
  => /\ ~ Generate(res.gen, FALSE).err
     /\ res.gen.text = DimensionText(res.gen.w, res.gen.h)
     /\ ~ res.gen.isQuoteOrJoke

(***************************************************************************)
(* The strings of a rendered SVG document that come from the request: the  *)
(* text lines, and the colour specs in fill attributes, gradient ids and   *)
(* gradient stops.                                                         *)
(***************************************************************************)
Entities == { EscapeChar(c) : c \in {"&", "<", ">", "\"", "'"} }

\* s holds none of the five reserved characters except as the "&" that
\* begins one of their five entities
NoRawMarkup(s) ==
  \A i \in 1..Len(s) :
    /\ s[i] \notin {"<", ">", "\"", "'"}
    /\ s[i] = "&" => \E e \in Entities : HasPrefix(SubSeq(s, i, Len(s)), e)

Interpolated(doc) ==
  { doc.texts[i].content : i \in 1..Len(doc.texts) }
    \cup { doc.texts[i].fill : i \in 1..Len(doc.texts) }
    \cup { doc.shape.fill }
    \cup UNION { { doc.defs[i].id, doc.defs[i].stop0, doc.defs[i].stop100 } :
                 i \in 1..Len(doc.defs) }

\* C16: in SVG output every request-derived string interpolated into the
\* markup (text lines, fill attributes, gradient ids, gradient stops) has
\* the five reserved characters escaped.
C16_MarkupEscaped ==
  arg # <<>> /\ arg.format = FormatSVG =>
    \A str \in Interpolated(res.data) : NoRawMarkup(str)

\* the largest dimension the documentation allows
MaxDimension == 4096

\* C17: no resolved size, width or height is greater than 4096, so no image
\* larger than 4096x4096 is rendered or cached.
C17_DimensionsBounded ==
  arg # <<>> => res.gen.w <= MaxDimension /\ res.gen.h <= MaxDimension

\* number strings that are empty, unparsable, zero or negative
BadNumbers == { <<>>, <<"a", "b", "c">>, <<"-", "5">>, <<"0">> }

PathMetric == TrimPrefix(arg.path, PlaceholderPrefix)

\* C18: every resolved size, width and height is positive; an empty,
\* unparsable, zero or negative input yields 128, a path that is not
\* {width}x{height} leaves the numbers to the w and h parameters (128 when
\* they are bad), a good number is taken as it is, and the image is
\* generated all the same.
C18_PositiveOrDefault ==
  arg # <<>> =>
    /\ res.gen.w > 0 /\ res.gen.h > 0
    /\ res.format = FormatSVG => ~ Generate(res.gen, FALSE).err
    /\ res.gen.kind = "avatar" =>
         /\ res.gen.w = res.gen.h
         /\ arg.query.size \in BadNumbers => res.gen.w = DefaultSize
         /\ arg.query.size = <<"6", "4">> => res.gen.w = 64
    /\ IsPlaceholderCall /\ PathMetric \in { <<>>, <<"-", "5", "x", "7">> } =>
         /\ arg.query.w \in BadNumbers => res.gen.w = DefaultSize
         /\ arg.query.h \in BadNumbers => res.gen.h = DefaultSize
         /\ arg.query.w = <<"3", "5", "0">> => res.gen.w = 350
         /\ arg.query.h = <<"9">> => res.gen.h = 9
    /\ IsPlaceholderCall /\ PathMetric = <<"0", "x", "7">> =>
         res.gen.w = DefaultSize /\ res.gen.h = 7
    /\ IsPlaceholderCall /\ PathMetric = <<"2", "9", "9", "x", "1", "0", "0">> =>
         res.gen.w = 299 /\ res.gen.h = 100

C18_Witness ==
  /\ IsPlaceholderCall
  /\ PathMetric = <<"-", "5", "x", "7">>
  /\ arg.query.w = <<"0">>
  /\ arg.query.h = <<"9">>
  /\ res.gen.w = DefaultSize
  /\ res.gen.h = 9

(***************************************************************************)
(* SpecWrap: the two wrapping functions applied to texts built from up to  *)
(* MaxWords words with single or double spaces between them and around     *)
(* them, at widths and font sizes where lines fill up, overflow and hold a *)
(* word wider than the line.  arg is the call, with the words the text was *)
(* built from; res is the list of lines returned.                          *)
(***************************************************************************)
MaxWords == 3

Vocabulary == { <<"i", "m">>, <<"w", "r", "a", "p">>, <<"a", "b", "c", "d", "e", "f", "g", "h", "i", "j", "k">> }

RECURSIVE WordLists(_)
WordLists(n) ==
  IF n = 0 THEN { <<>> }
  ELSE WordLists(n - 1)
         \cup { Append(ws, v) : ws \in { x \in WordLists(n - 1) : Len(x) = n - 1 },
                                v \in Vocabulary }

RECURSIVE JoinWith(_, _)
JoinWith(words, sep) ==
  IF words = <<>> THEN <<>>
  ELSE IF Len(words) = 1 THEN words[1]
  ELSE words[1] \o sep \o JoinWith(Tail(words), sep)

Blanks == { <<>>, <<" ">> }
Separators == { <<" ">>, <<" ", " ">> }

WrapInputs ==
  { [words |-> ws, text |-> lead \o JoinWith(ws, sep) \o trail] :
      ws \in WordLists(MaxWords), lead \in Blanks, sep \in Separators, trail \in Blanks }

WrapWidths == { 10, 300, 800 }
WrapFontSizes == { MinFontSize * Scale, 24 * Scale }

callWrapText(in, imageWidth, fontSize) ==
  /\ arg = <<>>
  /\ arg' = [fn |-> "wrapText", words |-> in.words, text |-> in.text,
             imageWidth |-> imageWidth, fontSize |-> fontSize]
  /\ res' = wrapText(in.text, imageWidth, fontSize)

callWrapTextForSVG(in, imageWidth, fontSize) ==
  /\ arg = <<>>
  /\ arg' = [fn |-> "wrapTextForSVG", words |-> in.words, text |-> in.text,
             imageWidth |-> imageWidth, fontSize |-> fontSize]
  /\ res' = wrapTextForSVG(in.text, imageWidth, fontSize)

InitWrap == RateLimiterOff /\ InitProcs /\ CacheOff /\ LockIdle /\ NoCall

NextWrap ==
  \/ \E in \in WrapInputs, w \in WrapWidths, f \in WrapFontSizes :
       callWrapText(in, w, f) /\ UNCHANGED <<rlVars, procVars, cacheVars, lockVars>>
  \/ \E in \in WrapInputs, w \in WrapWidths, f \in WrapFontSizes :
       callWrapTextForSVG(in, w, f) /\ UNCHANGED <<rlVars, procVars, cacheVars, lockVars>>

SpecWrap == InitWrap /\ [][NextWrap]_vars

\* whether a line is within the limit of the call: 80% of the image width
\* for the measured line, or the number of characters that width holds at
\* 0.6 of the font size each, and no fewer than MinCharsPerLine
Fits(line) ==
  IF arg.fn = "wrapText"
  THEN MeasureString(line, arg.fontSize) <= 800 * arg.imageWidth * Scale
  ELSE Len(line) <= Max((8 * arg.imageWidth * Scale) \div (6 * arg.fontSize), MinCharsPerLine)

FirstWord(line) ==
  IF IndexOf(line, " ") = 0 THEN line ELSE SubSeq(line, 1, IndexOf(line, " ") - 1)

\* C19: for text with at least one word, both wrapping functions return
\* lines that, joined by single spaces, are the words of the input in their
\* order; a line ends only where the next word would not fit after it, and
\* a line over the limit is a single word.
C19_GreedyWrapKeepsWords ==
  arg # <<>> /\ arg.words # <<>> =>
    /\ JoinWith(res, <<" ">>) = JoinWith(arg.words, <<" ">>)
    /\ \A i \in 1..(Len(res) - 1) :
         ~ Fits(res[i] \o <<" ">> \o FirstWord(res[i + 1]))
    /\ \A i \in 1..Len(res) :
         ~ Fits(res[i]) => IndexOf(res[i], " ") = 0

\* a call that breaks after a full line and puts a word wider than the
\* limit on a line of its own
C19_Witness ==
  /\ arg # <<>>
  /\ arg.fn = "wrapTextForSVG"
  /\ arg.imageWidth = 10
  /\ arg.words = << <<"i", "m">>, <<"w", "r", "a", "p">>, <<"a", "b", "c", "d", "e", "f", "g", "h", "i", "j", "k">> >>
  /\ res = << <<"i", "m", " ", "w", "r", "a", "p">>, <<"a", "b", "c", "d", "e", "f", "g", "h", "i", "j", "k">> >>

NameTokens ==
  { <<"a", "l", "i", "c", "e">>, <<"B", "o">>, <<"-", "x">>, <<"1">>, <<SmallEAcute, "t">>, <<SharpS>> }

RECURSIVE NameLists(_)
NameLists(n) ==
  IF n = 0 THEN { <<>> }
  ELSE NameLists(n - 1)
         \cup { Append(ts, v) : ts \in { x \in NameLists(n - 1) : Len(x) = n - 1 },
                                v \in NameTokens }

NameInputs ==
  { [tokens |-> ts, name |-> lead \o JoinWith(ts, sep) \o trail] :
      ts \in NameLists(MaxWords),
      lead \in { <<>>, <<" ", " ">> },
      sep \in { <<" ">>, <<"\t", " ">> },
      trail \in { <<>>, <<" ">> } }

callGetInitials(in) ==
  /\ arg = <<>>
  /\ arg' = [fn |-> "GetInitials", tokens |-> in.tokens, name |-> in.name]
  /\ res' = GetInitials(in.name)

InitInitials == RateLimiterOff /\ InitProcs /\ CacheOff /\ LockIdle /\ NoCall

NextInitials ==
  \E in \in NameInputs :
    callGetInitials(in) /\ UNCHANGED <<rlVars, procVars, cacheVars, lockVars>>

SpecInitials == InitInitials /\ [][NextInitials]_vars

\* the upper case of the code points that begin the tokens
UpperOf(c) ==
  CASE c = "a" -> "A"
    [] c = SmallEAcute -> CapitalEAcute
    [] OTHER -> c

\* C21: the initials are the uppercased first code points of the first two
\* tokens of the name, in order: none for a name without tokens, one for a
\* single token, two for two or more, whatever the characters are.
C21_InitialsOfFirstTwoTokens ==
  arg # <<>> =>
    /\ Len(arg.tokens) = 0 => res = <<>>
    /\ Len(arg.tokens) = 1 => res = << UpperOf(arg.tokens[1][1]) >>
    /\ Len(arg.tokens) >= 2 =>
         res = << UpperOf(arg.tokens[1][1]), UpperOf(arg.tokens[2][1]) >>

C21_Witness ==
  /\ arg # <<>>
  /\ arg.tokens = << <<SmallEAcute, "t">>, <<"-", "x">>, <<"a", "l", "i", "c", "e">> >>
  /\ arg.name = <<" ", " ", SmallEAcute, "t", "\t", " ", "-", "x", "\t", " ">> \o <<"a", "l", "i", "c", "e">>
  /\ res = <<CapitalEAcute, "-">>

(***************************************************************************)
(* SpecContrast: GetContrastColor applied to one colour, to two stops and  *)
(* to three comma-separated values.  The colours are given with their      *)
(* channels; two of them sit on the threshold and one step above it.  arg  *)
(* is the call, with the stops the background was built from; res is the   *)
(* colour returned.                                                        *)
(***************************************************************************)
Swatches ==
  { [hex |-> <<"f", "f", "f", "f", "f", "f">>, rgb |-> <<255, 255, 255>>],
    [hex |-> <<"f", "f", "f">>, rgb |-> <<255, 255, 255>>],
    [hex |-> <<"c", "c", "c", "c", "c", "c">>, rgb |-> <<204, 204, 204>>],
    [hex |-> <<"6", "6", "6", "6", "6", "6">>, rgb |-> <<102, 102, 102>>],
    [hex |-> <<"3", "3", "3", "3", "3", "3">>, rgb |-> <<51, 51, 51>>],
    [hex |-> <<"0", "0", "0", "0", "0", "0">>, rgb |-> <<0, 0, 0>>],
    [hex |-> <<"f", "f", "0", "0", "0", "0">>, rgb |-> <<255, 0, 0>>],
    [hex |-> <<"0", "0", "0", "0", "f", "f">>, rgb |-> <<0, 0, 255>>],
    [hex |-> <<"2", "f", "8", "f", "d", "3">>, rgb |-> <<47, 143, 211>>],
    [hex |-> <<"2", "f", "9", "0", "d", "3">>, rgb |-> <<47, 144, 211>>] }

ContrastInputs ==
  { [stops |-> <<a>>, bgHex |-> a.hex] : a \in Swatches }
    \cup { [stops |-> <<a, b>>, bgHex |-> a.hex \o sep \o b.hex] :
             a \in Swatches, b \in Swatches, sep \in { <<",">>, <<",", " ">> } }
    \cup { [stops |-> <<a, b, c>>, bgHex |-> a.hex \o <<",">> \o b.hex \o <<",">> \o c.hex] :
             a \in Swatches, b \in Swatches, c \in Swatches }

callGetContrastColor(in) ==
  /\ arg = <<>>
  /\ arg' = [fn |-> "GetContrastColor", stops |-> in.stops, bgHex |-> in.bgHex]
  /\ res' = GetContrastColor(in.bgHex)

InitContrast == RateLimiterOff /\ InitProcs /\ CacheOff /\ LockIdle /\ NoCall

NextContrast ==
  \E in \in ContrastInputs :
    callGetContrastColor(in) /\ UNCHANGED <<rlVars, procVars, cacheVars, lockVars>>

SpecContrast == InitContrast /\ [][NextContrast]_vars

\* 10000 times the relative luminance of channels on the scale 0..255
Luminance255(rgb) == 2126 * rgb[1] + 7152 * rgb[2] + 722 * rgb[3]

\* twice the channel-wise average of two colours
ChannelSum(a, b) == <<a[1] + b[1], a[2] + b[2], a[3] + b[3]>>

FontSizeOf(out) ==
  IF out.data.codec = FormatSVG THEN out.data.texts[1].fontSize ELSE out.data.img.fontSize

\* C23: an avatar or regular placeholder draws text of at most 2
\* characters at 50% of the smaller image dimension, and longer text at 15%
\* of it, floored at 12.
C23_FontSizePolicy ==
  arg # <<>> /\ ~ arg.isQuoteOrJoke /\ ~ res.err =>
    LET minDim == Min(arg.w, arg.h)
        expected == IF Len(arg.text) <= 2 THEN (minDim * Scale) \div 2
                    ELSE Max((15 * minDim * Scale) \div 100, 12 * Scale)
    IN  FontSizeOf(res) = IF arg.format = FormatSVG THEN Round0(expected) ELSE expected

\* twice the vertical position of line i of a block of n lines in an image
\* of height h: centre - blockHeight/2 + fontSize/2 + (i-1) pitch, with
\* pitch 1.5 fontSize and blockHeight fontSize + (n-1) pitch
BlockY2(i, n, h, fontSize) ==
  LET pitch == (3 * fontSize) \div 2
      blockHeight == fontSize + (n - 1) * pitch
  IN  h * Scale - blockHeight + fontSize + 2 * (i - 1) * pitch

IsWrappedBlock == arg # <<>> /\ arg.isQuoteOrJoke /\ ~ res.err

\* C24 (as amended): in a wrapped block of N lines the raster renderer
\* places line i at centre - blockHeight/2 + fontSize/2 + (i-1) pitch, with
\* pitch 1.5 fontSize and blockHeight fontSize + (N-1) pitch, so that first
\* and last line are symmetric about the vertical centre; the vector
\* renderer writes the same position rounded to the nearest integer.
C24_BlockPlacementUpToRounding ==
  IsWrappedBlock =>
    LET f == placeholderFontSize(arg.w, arg.h, arg.text, TRUE)
    IN  IF arg.format = FormatSVG
        THEN LET ts == res.data.texts
             IN  /\ \A i \in 1..Len(ts) :
                      ts[i].y = Round0(BlockY2(i, Len(ts), arg.h, f) \div 2)
                 /\ ts[1].y + ts[Len(ts)].y \in (arg.h - 1)..(arg.h + 1)
        ELSE LET ts == res.data.img.texts
             IN  /\ \A i \in 1..Len(ts) : ts[i].y2 = BlockY2(i, Len(ts), arg.h, f)
                 /\ ts[1].y2 + ts[Len(ts)].y2 = 2 * arg.h * Scale

\* two lines in an SVG of height 301: the first at 132.44, written as 132
C24_Witness ==
  /\ IsWrappedBlock
  /\ arg.format = FormatSVG
  /\ arg.h = 301
  /\ Len(res.data.texts) = 2
  /\ res.data.texts[1].y = 132
  /\ res.data.texts[2].y = 169

\* C24 (as stated): the vector renderer places line i at exactly the
\* position the raster renderer uses, symmetric about the centre.
C24_SamePositionInBoth ==
  IsWrappedBlock /\ arg.format = FormatSVG =>
    LET f == placeholderFontSize(arg.w, arg.h, arg.text, TRUE)
        ts == res.data.texts
    IN  /\ \A i \in 1..Len(ts) : 2 * Scale * ts[i].y = BlockY2(i, Len(ts), arg.h, f)
        /\ ts[1].y + ts[Len(ts)].y = arg.h

\* C25: for a rounded shape both renderers draw a circle centred in the
\* image with radius min(width, height)/2, for every width and height.
\* (Raster coordinates are kept doubled.)
C25_InscribedCircle ==
  arg # <<>> /\ arg.rounded /\ ~ res.err =>
    IF arg.format = FormatSVG
    THEN /\ res.data.shape.kind = "circle"
         /\ 2 * res.data.shape.cx = arg.w
         /\ 2 * res.data.shape.cy = arg.h
         /\ 2 * res.data.shape.r = Min(arg.w, arg.h)
    ELSE /\ res.data.img.shape.kind = "circle"
         /\ res.data.img.shape.cx2 = arg.w * Scale
         /\ res.data.img.shape.cy2 = arg.h * Scale
         /\ res.data.img.shape.r2 = Min(arg.w, arg.h) * Scale

(***************************************************************************)
(* SpecBurst: request goroutines contending for rl.mu with no time         *)
(* passing, so that no bucket is refilled and the ticker never fires.      *)
(* Here arg counts, per identity, the limiters allocated for it and res    *)
(* the requests admitted for it (both counted up to burst + 1).            *)
(***************************************************************************)
NoCounts ==
  /\ arg = [ip \in IPs |-> 0]
  /\ res = [ip \in IPs |-> 0]

burstGetLimiter(p) ==
  /\ lockedGetLimiter(p)
  /\ arg' = [arg EXCEPT ![ipOf[p]] =
               Min(@ + (IF DOMAIN buckets' # DOMAIN buckets THEN 1 ELSE 0), burst + 1)]
  /\ UNCHANGED res

burstAllow(p) ==
  /\ allowAndRespond(p)
  /\ res' = [res EXCEPT ![ipOf[p]] = Min(@ + (IF invoked'[p] THEN 1 ELSE 0), burst + 1)]
  /\ UNCHANGED arg

InitBurst == NewRateLimiter /\ InitProcs /\ CacheOff /\ LockIdle /\ NoCounts

NextBurst ==
  \/ \E p \in Procs, r \in RLRequests : startRequest(p, r) /\ UNCHANGED <<cacheVars, pureVars>>
  \/ \E p \in Procs : mutexLock(p) /\ UNCHANGED <<cacheVars, pureVars>>
  \/ \E p \in Procs : burstGetLimiter(p) /\ UNCHANGED cacheVars
  \/ \E p \in Procs : burstAllow(p) /\ UNCHANGED cacheVars

SpecBurst == InitBurst /\ [][NextBurst]_vars

\* C26: with no refill, every identity has exactly one bucket created for
\* it however the requests interleave, every request draws on the bucket
\* the registry holds for its identity, and at most burst requests of an
\* identity are admitted.
C26_OneBucketPerIdentity ==
  /\ \A ip \in IPs :
       /\ arg[ip] <= 1
       /\ arg[ip] = 1 <=> ip \in DOMAIN limiters
       /\ res[ip] <= burst
  /\ \A p \in Procs :
       apc[p] = "allow" => held[p] = limiters[ipOf[p]].limiter

\* two goroutines of one unseen identity have both passed getLimiter and
\* hold the same limiter, with no request admitted yet
C26_Witness ==
  /\ apc[1] = "allow" /\ apc[2] = "allow"
  /\ ipOf[1] = ipOf[2]
  /\ held[1] = held[2]
  /\ arg[ipOf[1]] = 1
  /\ res[ipOf[1]] = 0

\* the burst is spent by concurrent requests and a further one is rejected
C26_Spent ==
  \E ip \in IPs : res[ip] = burst /\ \E p \in Procs : resp[p] = TooManyRequests

(***************************************************************************)
(* SpecEvict: the rate limiter of SpecRL under configurations with small   *)
(* and large bursts, with the admissions of every identity counted over an *)
(* interval.  Here arg is the interval ([start |-> t] once it has begun)   *)
(* and res counts, per identity, the requests admitted since its start.    *)
(***************************************************************************)
EvictConfigs ==
  { [rpm |-> 60, burst |-> 1], [rpm |-> 60, burst |-> 12],
    [rpm |-> 1, burst |-> 1], [rpm |-> 1, burst |-> 12] }

NewRateLimiterEvict ==
  /\ now = 0
  /\ ticks = 0
  /\ \E c \in EvictConfigs : rpm = c.rpm /\ burst = c.burst
  /\ limiters = <<>>
  /\ buckets = <<>>
  /\ tickAt = CleanupInterval
  /\ obs = <<>>
  /\ sweepLog = [removed |-> {}, kept |-> {}]

InitEvict ==
  /\ NewRateLimiterEvict /\ InitProcs /\ CacheOff /\ LockIdle
  /\ arg = <<>>
  /\ res = [ip \in IPs |-> 0]

\* the observed interval begins
beginInterval ==
  /\ arg = <<>>
  /\ arg' = [start |-> now]
  /\ UNCHANGED <<rlVars, procVars, cacheVars, lockVars, res>>

\* the requests of one client
EvictRequests ==
  { [xff |-> <<>>, realIP |-> <<>>, remoteAddr |-> <<"1", ":", "9">>] }

countedRequest(r) ==
  /\ Middleware(Main, r)
  /\ res' = IF arg # <<>> /\ invoked'[Main]
            THEN [res EXCEPT ![getIP(r)] = @ + 1]
            ELSE res
  /\ UNCHANGED arg

NextEvict ==
  \/ beginInterval
  \/ \E r \in EvictRequests : countedRequest(r) /\ UNCHANGED <<cacheVars, lockVars>>
  \/ cleanupStaleEntries /\ UNCHANGED <<cacheVars, lockVars, pureVars>>
  \/ \E d \in Durations : Tick(d) /\ UNCHANGED <<cacheVars, lockVars, pureVars>>

SpecEvict == InitEvict /\ [][NextEvict]_vars

\* admitted <= burst + (rpm/60) * T, in sixtieths of a request
WithinBucketBound(ip) ==
  60 * res[ip] <= 60 * burst + rpm * (now - arg.start)

\* C27: for every rpm and burst, over any interval of T seconds the
\* requests admitted for one identity number at most burst + (rpm/60)*T,
\* also when the identity's entry is swept and re-created in the interval.
C27_EvictionKeepsBucketBound ==
  arg # <<>> => \A ip \in IPs : WithinBucketBound(ip)

\* the bound does hold in the configurations in which a bucket refills
\* completely within the idle threshold (burst <= rpm * IdleThreshold / 60)
C27_BoundWhenRefillCoversBurst ==
  arg # <<>> /\ 60 * burst <= rpm * IdleThreshold =>
    \A ip \in IPs : WithinBucketBound(ip)

\* an identity's entry was swept and re-created within the interval
C27_SweptInsideInterval ==
  /\ arg # <<>>
  /\ \E ip \in sweepLog.removed : ip \in DOMAIN limiters /\ res[ip] > burst

(***************************************************************************)
(* SpecSteady: the rate limiter with burst 1 and the calls of every        *)
(* identity timed.  Here res records, per identity, the time of its last   *)
(* call (-1 before the first), whether every gap between its calls so far, *)
(* the current one included, was shorter than the idle threshold, and how  *)
(* many times an entry was created for it (counted up to 2).               *)
(***************************************************************************)
NeverCalled == [last |-> 0 - 1, steady |-> TRUE, made |-> 0]

InitSteady ==
  /\ NewRateLimiter /\ burst = 1
  /\ InitProcs /\ CacheOff /\ LockIdle
  /\ arg = <<>>
  /\ res = [ip \in IPs |-> NeverCalled]

timedRequest(r) ==
  /\ Middleware(Main, r)
  /\ res' = [res EXCEPT ![getIP(r)] =
               [@ EXCEPT !.last = now,
                         !.made = Min(@ + (IF getIP(r) \in DOMAIN limiters THEN 0 ELSE 1), 2)]]
  /\ UNCHANGED arg

SteadyDurations == {Quantum, IdleThreshold - Quantum}

timedTick(d) ==
  /\ Tick(d)
  /\ res' = [ip \in IPs |->
               [res[ip] EXCEPT !.steady =
                  @ /\ (res[ip].last < 0 \/ now' - res[ip].last < IdleThreshold)]]
  /\ UNCHANGED arg

NextSteady ==
  \/ \E r \in RLRequests : timedRequest(r) /\ UNCHANGED <<cacheVars, lockVars>>
  \/ cleanupStaleEntries /\ UNCHANGED <<cacheVars, lockVars, pureVars>>
  \/ \E d \in SteadyDurations : timedTick(d) /\ UNCHANGED <<cacheVars, lockVars>>

SpecSteady == InitSteady /\ [][NextSteady]_vars

\* C28: the lastAccess of an identity's entry is the time of the identity's
\* last call, whether that call was admitted or rejected; an identity that
\* has kept calling at intervals shorter than the idle threshold still has
\* the one entry that its first call created.
C28_CallsKeepEntryAlive ==
  \A ip \in IPs :
    res[ip].last >= 0 =>
      /\ ip \in DOMAIN limiters => limiters[ip].lastAccess = res[ip].last
      /\ res[ip].steady => ip \in DOMAIN limiters /\ res[ip].made = 1

\* a sweep has kept the entry of an identity whose last call, made less
\* than the idle threshold before the sweep, was rejected, and has removed
\* the entry of an identity that stayed silent for longer
C28_Witness ==
  /\ \E ip \in sweepLog.kept :
       /\ res[ip].steady /\ res[ip].last > 0
       /\ now > res[ip].last
       /\ obs[BucketOf(ip)].rejected
  /\ sweepLog.removed # {}

(***************************************************************************)
(* SpecAdmit: the avatar and placeholder routes as RegisterRoutes builds   *)
(* them when a rate limiter is given: rl.Middleware wrapped around the     *)
(* handler, served by concurrent request goroutines.                       *)
(***************************************************************************)
\* the requests of SpecCache, arriving from one client
Routed(reqs) ==
  { [path |-> q.path, query |-> q.query, inm |-> q.inm,
     xff |-> c.xff, realIP |-> c.realIP, remoteAddr |-> c.remoteAddr] :
      q \in reqs, c \in EvictRequests }

\* Middleware lines 113-120: the limiter of the client is taken and asked;
\* a rejected request is answered 429, an admitted one is left to next
admit(p, r) ==
  LET ip == getIP(r)
      g == getLimiter(ip)
      h == g.limiter
      a == Allow(g.buckets[h], now)
      o == IF g.created THEN NewObs ELSE obs[h]
  IN  /\ limiters' = g.limiters
      /\ buckets' = [g.buckets EXCEPT ![h] = a.lim]
      /\ obs' = [k \in DOMAIN g.buckets |->
                   IF k = h THEN Observe(o, g.buckets[h], a) ELSE obs[k]]
      /\ resp' = [resp EXCEPT ![p] = IF a.ok THEN NoResponse ELSE TooManyRequests]
      /\ invoked' = [invoked EXCEPT ![p] = a.ok]
      /\ UNCHANGED <<now, ticks, rpm, burst, tickAt, sweepLog>>

\* Middleware lines 116-119: http.Error and return, next is not called
rejected(p, r) ==
  /\ lastAct' = [p |-> p, kind |-> "rejected", req |-> Target(r), key |-> <<>>,
                 gen |-> <<>>, get |-> FALSE, add |-> FALSE, render |-> FALSE,
                 err |-> FALSE, resp |-> TooManyRequests, inm |-> r.inm]
  /\ UNCHANGED <<cacheSize, cache, recency, pc, job>>

\* a variant of routeAvatar in which the handler runs whatever the limiter
\* answered
routeAvatarUnguarded(p, r) ==
  /\ pc[p] = "idle"
  /\ admit(p, r)
  /\ handleAvatar(p, [path |-> r.path, query |-> r.query, inm |-> r.inm])

\* mux.Handle("/avatar/", applyRateLimit(http.HandlerFunc(s.handleAvatar)))
routeAvatar(p, r) ==
  /\ pc[p] = "idle"
  /\ admit(p, r)
  /\ IF invoked'[p]
     THEN handleAvatar(p, [path |-> r.path, query |-> r.query, inm |-> r.inm])
     ELSE rejected(p, r)

\* mux.Handle("/placeholder/", applyRateLimit(http.HandlerFunc(s.handlePlaceholder)))
routePlaceholder(p, r) ==
  /\ pc[p] = "idle"
  /\ admit(p, r)
  /\ IF invoked'[p]
     THEN handlePlaceholder(p, [path |-> r.path, query |-> r.query, inm |-> r.inm])
     ELSE rejected(p, r)

InitAdmit == NewRateLimiter /\ rpm = 60 /\ InitProcs /\ NewService /\ LockIdle /\ NoCall

NextAdmit ==
  \/ \E p \in Procs, r \in Routed(AvatarRequests) :
       routeAvatar(p, r) /\ UNCHANGED <<lockVars, pureVars>>
  \/ \E p \in Procs, r \in Routed(PlaceholderRequests) :
       routePlaceholder(p, r) /\ UNCHANGED <<lockVars, pureVars>>
  \/ \E p \in Procs, fault \in BOOLEAN :
       serveImageGenerate(p, fault) /\ UNCHANGED <<rlVars, procVars, lockVars, pureVars>>

SpecAdmit == InitAdmit /\ [][NextAdmit]_vars

\* the tokens (in sixtieths) the client of r has before the request
TokensBefore(r) ==
  IF getIP(r) \in DOMAIN limiters
  THEN advance(buckets[BucketOf(getIP(r))], now)
  ELSE burst * 60

C29_Route(p, r) ==
  IF TokensBefore(r) < 60
  THEN /\ resp'[p] = TooManyRequests
       /\ lastAct'.kind = "rejected"
       /\ ~ lastAct'.get /\ ~ lastAct'.add /\ ~ lastAct'.render
       /\ UNCHANGED <<cacheSize, cache, recency, pc, job>>
       /\ buckets'[BucketOf(getIP(r))'].tokens60 = buckets[BucketOf(getIP(r))].tokens60
  ELSE /\ IsLookup(lastAct') /\ lastAct'.p = p
       /\ buckets'[BucketOf(getIP(r))'].tokens60 = TokensBefore(r) - 60

\* C29: on the avatar and placeholder routes a request that finds less than
\* one token is answered 429 without any cache call, any generator call or
\* any change of the cache, and every request that the handler answers (304,
\* HIT, or by rendering) has taken one token before.
C29_AdmissionFirst ==
  [][ /\ \A p \in Procs, r \in Routed(AvatarRequests) :
           routeAvatar(p, r) => C29_Route(p, r)
      /\ \A p \in Procs, r \in Routed(PlaceholderRequests) :
           routePlaceholder(p, r) => C29_Route(p, r)
      /\ (\E p \in Procs : pc[p] = "generate" /\ pc'[p] = "idle") =>
           UNCHANGED <<limiters, buckets>> ]_vars

\* a request carrying the ETag of a cached image, which the handler would
\* have answered 304, was rejected while no goroutine was rendering
C29_Witness ==
  /\ lastAct.kind = "rejected"
  /\ \E i \in 1..Len(cache) : ETag(cache[i].key) = lastAct.inm
  /\ \A p \in Procs : pc[p] = "idle"

(***************************************************************************)
(* SpecBlankForward: the client connection of SpecIdentity sending         *)
(* requests whose forwarding chain begins with an empty value, next to     *)
(* requests without a forwarding chain.                                    *)
(***************************************************************************)
BlankFirstChain == <<",", " ", "7">>

BlankForwardRequests ==
  { [xff |-> x, realIP |-> y, remoteAddr |-> a] :
      x \in { BlankFirstChain, <<>> },
      y \in { <<>>, <<"3">> },
      a \in { <<"1", ":", "9">>, <<"4">> } }

NextBlankForward ==
  \E r \in BlankForwardRequests : serveIdentified(r) /\ UNCHANGED <<cacheVars, lockVars>>

SpecBlankForward == InitIdentity /\ [][NextBlankForward]_vars

\* C30: for a request with a non-empty peer address the bucket key is not
\* the empty string, and when the first value of the forwarding chain is
\* empty or blank the key is taken from the next source: X-Real-IP when
\* present, else the peer address without its port.
C30_IdentityNeverEmpty ==
  arg # <<>> /\ arg.remoteAddr # <<>> =>
    /\ res # <<>>
    /\ arg.xff # <<>> /\ FirstForwarded(arg.xff) = <<>> =>
         res = IF arg.realIP # <<>> THEN arg.realIP ELSE PeerHost(arg.remoteAddr)

\* requests of two peers whose chains begin with an empty value have used
\* one bucket, and the second was rejected
C30_PeersCollapsed ==
  /\ arg # <<>> /\ arg.xff = BlankFirstChain /\ arg.realIP = <<>>
  /\ arg.remoteAddr = <<"4">>
  /\ DOMAIN limiters = {<<>>}
  /\ resp[Main] = TooManyRequests

=============================================================================
